---- MODULE Spec2Model ----
(***************************************************************************)
(* Model of lucidshark-duplo: the pairwise match-matrix scan               *)
(* (core/processor.rs), the parallel detection run, and the cleaned-line   *)
(* cache (cache/storage.rs).                                               *)
(***************************************************************************)
EXTENDS Integers, Sequences, FiniteSets, TLC

VARIABLES
    config,        \* Config (config.rs): the fields the core reads
    source1,       \* process_file_pair: line hashes of source1
    source2,       \* process_file_pair: line hashes of source2
    source1_idx,   \* process_file_pair: index of source1 in the file vector
    source2_idx,   \* process_file_pair: index of source2 in the file vector
    context,       \* ThreadContext: the scratch bit matrix
    pair_min_block_size, \* process_file_pair: its local min_block_size (0 before it is set)
    pair_blocks,   \* the Vec<Block> process_file_pair returned
    pair_pc,       \* "ready" before the call, "done" after it
    source_files,  \* process_files_with_cache: the loaded Vec<SourceFile>
    max_lines,     \* the longest cleaned-line count the loader found
    hash_index,    \* HashToFiles: line hash -> file indices
    files_to_check, \* number of outer indices that become tasks
    task_state,    \* per outer index: "pending", "running" or "done"
    results,       \* per outer index: the Vec<Block> its task returned
    finished,      \* the outer indices in the order their tasks completed
    result,        \* the DuploResult of the run
    run_pc,        \* "loaded", "processing" or "done"
    disk,          \* source path -> the file's bytes, or Missing
    cache_files,   \* the cache directory: cache path -> file content, or Absent
    cache,         \* the FileCache object (its config_hash)
    cache_ret,     \* the return value of the last FileCache or loader call
    put_log,       \* history: source path -> the successful put whose entry
                   \* is still the path's cache file, if any
    baseline_file, \* the file at the baseline path: Absent, Truncated or Written
    baseline,      \* the Baseline object in memory, if any
    baseline_ret,  \* the return value of the last baseline call
    corpus,        \* the source files as the loader delivers them, in list order
    main_pc,       \* the phase main is in
    exit_code,     \* the process's exit code once it has exited
    stderr,        \* the warnings and errors the run has written so far
    stdout,        \* the result the exporter has written, if any
    changed_files, \* the changed set of the discovery, if any
    runs,          \* how many runs have started
    baseline_origin, \* history: the run that saved the baseline file, if one did
    task_context,  \* per outer index: the ThreadContext its closure created, if any
    task_cursor,   \* per outer index: the file index its closure compares next
    file_type,     \* the FileType a file is cleaned by, with its settings
    raw_lines,     \* the raw lines the cleaner has consumed so far
    cleaner,       \* the loop-carried locals of get_cleaned_source_lines
    cleaned_lines  \* the Vec<SourceLine> the cleaner has built so far

pair_vars == <<source1, source2, source1_idx, source2_idx, context, pair_min_block_size,
               pair_blocks, pair_pc>>
run_vars == <<source_files, max_lines, hash_index, files_to_check, task_state, results,
              finished, result, run_pc>>
cache_vars == <<disk, cache_files, cache, cache_ret, put_log>>
process_vars == <<corpus, main_pc, exit_code, stderr, stdout, changed_files, runs,
                  baseline_origin>>
main_vars == <<baseline_file, baseline, baseline_ret, process_vars>>
task_vars == <<task_context, task_cursor>>
clean_vars == <<file_type, raw_lines, cleaner, cleaned_lines>>
aux_vars == <<task_vars, clean_vars>>
vars == <<config, pair_vars, run_vars, cache_vars, main_vars, aux_vars>>

(***************************************************************************)
(* Bounds of the model.                                                    *)
(***************************************************************************)
MaxLen == 3        \* longest cleaned-line sequence of a file in a cross pair
MaxSelfLen == 4    \* longest cleaned-line sequence of a self-compared file
NumHashes == 2     \* distinct line hashes in a cross pair
NumSelfHashes == 3 \* distinct line hashes in a self-compared file
MaxB == 2          \* largest configured min_block_size

Min(a, b) == IF a <= b THEN a ELSE b
Max(a, b) == IF a >= b THEN a ELSE b

\* Sequences over S of length 0..n
SeqUpTo(S, n) == UNION {[1..k -> S] : k \in 0..n}

\* block_percent_threshold is a u8; the values the model draws
PercentValues == {0, 50, 100, 200}

(***************************************************************************)
(* Config (config.rs)                                                      *)
(***************************************************************************)
Config(mc, mbs, pct, ftc, nt, isf) ==
    [min_chars |-> mc,
     min_block_size |-> mbs,
     block_percent_threshold |-> pct,
     files_to_check |-> ftc,
     num_threads |-> nt,
     ignore_same_filename |-> isf]

\* Config::default(): min_chars 3, min_block_size 4, threshold 100, all files
DefaultMinChars == 3
DefaultMinBlockSize == 4
DefaultPercent == 100
Config_default ==
    Config(DefaultMinChars, DefaultMinBlockSize, DefaultPercent, 0, 1, FALSE)

(***************************************************************************)
(* Block (core/block.rs)                                                   *)
(***************************************************************************)
Block_new_mutant(s1, s2, line1, line2, count) ==
    [source1_idx |-> s1, source2_idx |-> s2,
     line1 |-> line2, line2 |-> line1, count |-> count]

Block_new(s1, s2, line1, line2, count) ==
    [source1_idx |-> s1, source2_idx |-> s2,
     line1 |-> line1, line2 |-> line2, count |-> count]

(***************************************************************************)
(* ThreadContext (core/processor.rs)                                       *)
(***************************************************************************)
\* bitvec![0; max_lines * max_lines]
ThreadContext_new(maxl) ==
    [k \in 0..(maxl * maxl - 1) |-> FALSE]

reset_matrix_mutant(matrix, m, n) == matrix

\* self.matrix[..m*n].fill(false)
reset_matrix(matrix, m, n) ==
    [k \in DOMAIN matrix |-> IF k < m * n THEN FALSE ELSE matrix[k]]

\* the population loop: matrix.set(x + n*y, true) where line y of source1
\* equals (by hash) line x of source2
populate_matrix(matrix, s1, s2) ==
    LET m == Len(s1)
        n == Len(s2)
    IN [k \in DOMAIN matrix |->
          IF \E y \in 0..(m - 1), x \in 0..(n - 1) :
                 k = x + n * y /\ s1[y + 1] = s2[x + 1]
          THEN TRUE
          ELSE matrix[k]]

(***************************************************************************)
(* calc_min_block_size (core/processor.rs)                                 *)
(***************************************************************************)
calc_min_block_size_mutant(cfg, m, n) ==
    LET min_from_threshold ==
            IF cfg.block_percent_threshold > 0
            THEN (Max(m, n) * 100) \div cfg.block_percent_threshold
            ELSE 0
    IN Min(cfg.min_block_size, min_from_threshold)

calc_min_block_size(cfg, m, n) ==
    LET min_from_threshold ==
            IF cfg.block_percent_threshold > 0
            THEN (Max(m, n) * 100) \div cfg.block_percent_threshold
            ELSE 0
    IN Max(cfg.min_block_size, Min(cfg.min_block_size, min_from_threshold))

(***************************************************************************)
(* process_file_pair (core/processor.rs)                                   *)
(* p is the frame of the call: matrix, m, n, min_block_size, is_same_file, *)
(* source1_idx, source2_idx.                                               *)
(***************************************************************************)
\* the self-comparison filter of the vertical pass
report_vertical_mutant(p, line1, line2) == TRUE

report_vertical(p, line1, line2) == ~p.is_same_file \/ line1 # line2

\* start of a vertical run that reached the end of its diagonal
vertical_end_line1(p, y, seq_len) == p.m - seq_len
vertical_end_line2(p, y, seq_len) == Min(p.n, p.m - y) - seq_len

\* start of a horizontal run that reached the end of its diagonal
horizontal_end_line1(p, x, seq_len) == p.m - seq_len
horizontal_end_line2(p, x, seq_len) == p.n - seq_len

\* the inner loop of the vertical pass, from column x on; yields the final
\* seq_len and the blocks pushed so far
RECURSIVE vertical_inner(_, _, _, _, _)
vertical_inner(p, y, x, seq_len, blocks) ==
    IF x >= Min(p.n, p.m - y)
    THEN [seq_len |-> seq_len, blocks |-> blocks]
    ELSE IF p.matrix[x + p.n * (y + x)]
         THEN vertical_inner(p, y, x + 1, seq_len + 1, blocks)
         ELSE LET line1 == y + x - seq_len
                  line2 == x - seq_len
              IN vertical_inner(p, y, x + 1, 0,
                    IF seq_len >= p.min_block_size /\ report_vertical(p, line1, line2)
                    THEN Append(blocks,
                           Block_new(p.source1_idx, p.source2_idx, line1, line2, seq_len))
                    ELSE blocks)

\* the vertical pass from row y on
RECURSIVE vertical_scan(_, _, _)
vertical_scan(p, y, blocks) ==
    IF y >= p.m
    THEN blocks
    ELSE LET r == vertical_inner(p, y, 0, 0, blocks)
             line1 == vertical_end_line1(p, y, r.seq_len)
             line2 == vertical_end_line2(p, y, r.seq_len)
         IN vertical_scan(p, y + 1,
               IF r.seq_len >= p.min_block_size /\ report_vertical(p, line1, line2)
               THEN Append(r.blocks,
                      Block_new(p.source1_idx, p.source2_idx, line1, line2, r.seq_len))
               ELSE r.blocks)

\* the inner loop of the horizontal pass, from row y on
RECURSIVE horizontal_inner(_, _, _, _, _)
horizontal_inner(p, x, y, seq_len, blocks) ==
    IF y >= Min(p.m, p.n - x)
    THEN [seq_len |-> seq_len, blocks |-> blocks]
    ELSE IF p.matrix[x + y + p.n * y]
         THEN horizontal_inner(p, x, y + 1, seq_len + 1, blocks)
         ELSE horizontal_inner(p, x, y + 1, 0,
                 IF seq_len >= p.min_block_size
                 THEN Append(blocks,
                        Block_new(p.source1_idx, p.source2_idx,
                                  y - seq_len, x + y - seq_len, seq_len))
                 ELSE blocks)

\* the horizontal pass from column x on (x starts at 1)
RECURSIVE horizontal_scan(_, _, _)
horizontal_scan(p, x, blocks) ==
    IF x >= p.n
    THEN blocks
    ELSE LET r == horizontal_inner(p, x, 0, 0, blocks)
         IN horizontal_scan(p, x + 1,
               IF r.seq_len >= p.min_block_size
               THEN Append(r.blocks,
                      Block_new(p.source1_idx, p.source2_idx,
                                horizontal_end_line1(p, x, r.seq_len),
                                horizontal_end_line2(p, x, r.seq_len),
                                r.seq_len))
               ELSE r.blocks)

\* process_file_pair: the blocks it returns and the matrix it leaves behind
process_file_pair(s1, s2, idx1, idx2, cfg, matrix) ==
    LET m == Len(s1)
        n == Len(s2)
    IN IF m = 0 \/ n = 0
       THEN [blocks |-> <<>>, matrix |-> matrix, min_block_size |-> 0]
       ELSE LET built == populate_matrix(reset_matrix(matrix, m, n), s1, s2)
                p == [matrix |-> built, m |-> m, n |-> n,
                      min_block_size |-> calc_min_block_size(cfg, m, n),
                      is_same_file |-> (idx1 = idx2),
                      source1_idx |-> idx1, source2_idx |-> idx2]
                vertical == vertical_scan(p, 0, <<>>)
            IN [blocks |-> IF p.is_same_file
                           THEN vertical
                           ELSE horizontal_scan(p, 1, vertical),
                matrix |-> built,
                min_block_size |-> p.min_block_size]

(***************************************************************************)
(* Line hash (core/hash.rs).  A u32 is the pair <<high 16 bits, low 16      *)
(* bits>>; a text is its sequence of bytes.                                *)
(***************************************************************************)
RECURSIVE xor_bits(_, _, _)
xor_bits(a, b, bits) ==
    IF bits = 0
    THEN 0
    ELSE (((a % 2) + (b % 2)) % 2) + 2 * xor_bits(a \div 2, b \div 2, bits - 1)

\* 2166136261 = 0x811C9DC5
FNV_OFFSET_BASIS == <<33052, 40389>>

\* one round of fnv1a_hash: hash ^= byte; hash = hash.wrapping_mul(16777619),
\* 16777619 = 0x01000193 = 256 * 2^16 + 403
fnv1a_round(hash, byte) ==
    LET lo == ((hash[2] \div 256) * 256) + xor_bits(hash[2] % 256, byte, 8)
        hi == hash[1]
    IN <<((hi * 403) + (lo * 256) + ((lo * 403) \div 65536)) % 65536, (lo * 403) % 65536>>

RECURSIVE fnv1a_from(_, _)
fnv1a_from(hash, data) ==
    IF data = <<>> THEN hash ELSE fnv1a_from(fnv1a_round(hash, Head(data)), Tail(data))

fnv1a_hash(data) == fnv1a_from(FNV_OFFSET_BASIS, data)

\* hash_line: the bytes > ' ' of the line, hashed
hash_line(line) == fnv1a_hash(SelectSeq(line, LAMBDA b : b > 32))

(***************************************************************************)
(* SourceLine (core/source_line.rs)                                        *)
(***************************************************************************)
SourceLine_new(line, line_number) ==
    [line |-> line, line_number |-> line_number, hash |-> hash_line(line)]

\* SourceLine::from_cached(line, line_number, hash): the cached hash is kept
SourceLine_from_cached(line, line_number, hash) ==
    [line |-> line, line_number |-> line_number, hash |-> hash]

(***************************************************************************)
(* serde_json, as far as the cache entry needs it: unsigned integers are   *)
(* written as decimal digits, strings with '"' and '\' escaped.            *)
(***************************************************************************)
RECURSIVE to_digits(_)
to_digits(n) ==
    IF n < 10 THEN <<n>> ELSE Append(to_digits(n \div 10), n % 10)

RECURSIVE from_digits(_)
from_digits(ds) ==
    IF Len(ds) = 1
    THEN ds[1]
    ELSE (from_digits(SubSeq(ds, 1, Len(ds) - 1)) * 10) + ds[Len(ds)]

\* a u32 <<hi, lo>> as decimal digits, by long division
RECURSIVE u32_to_digits(_)
u32_to_digits(v) ==
    LET low == ((v[1] % 10) * 65536) + v[2]
        quotient == <<v[1] \div 10, low \div 10>>
    IN IF quotient = <<0, 0>>
       THEN <<low % 10>>
       ELSE Append(u32_to_digits(quotient), low % 10)

\* decimal digits as a u32 <<hi, lo>> (the entries a put writes fit a u32)
RECURSIVE u32_from_digits(_)
u32_from_digits(ds) ==
    IF ds = <<>>
    THEN <<0, 0>>
    ELSE LET r == u32_from_digits(SubSeq(ds, 1, Len(ds) - 1))
             low == (r[2] * 10) + ds[Len(ds)]
         IN <<((r[1] * 10) + (low \div 65536)) % 65536, low % 65536>>

\* 34 is '"', 92 is '\'
RECURSIVE json_escape(_)
json_escape(text) ==
    IF text = <<>>
    THEN <<>>
    ELSE (IF Head(text) \in {34, 92} THEN <<92, Head(text)>> ELSE <<Head(text)>>)
         \o json_escape(Tail(text))

RECURSIVE json_unescape(_)
json_unescape(text) ==
    IF text = <<>>
    THEN <<>>
    ELSE IF Head(text) = 92 /\ Len(text) >= 2
         THEN <<text[2]>> \o json_unescape(SubSeq(text, 3, Len(text)))
         ELSE <<Head(text)>> \o json_unescape(Tail(text))

(***************************************************************************)
(* std DefaultHasher: a 64-bit hash of a byte or integer sequence.  The    *)
(* model folds the sequence into a number; it has no collisions on the     *)
(* values the model draws.                                                 *)
(***************************************************************************)
RECURSIVE default_hash_from(_, _)
default_hash_from(h, data) ==
    IF data = <<>>
    THEN h
    ELSE default_hash_from(((h * 31) + Head(data) + 1) % 65521, Tail(data))

default_hash(data) == default_hash_from(7, data)

\* Config::cleaning_config_hash: only min_chars is hashed
cleaning_config_hash(cfg) == default_hash(<<cfg.min_chars>>)

(***************************************************************************)
(* FileCache (cache/storage.rs)                                            *)
(***************************************************************************)
CACHE_VERSION == 1

Missing == [readable |-> FALSE]                 \* a source path that cannot be read
Readable(bytes) == [readable |-> TRUE, bytes |-> bytes]
Absent == [present |-> FALSE]                   \* no file at a cache path
Truncated == [present |-> TRUE, whole |-> FALSE] \* a cache file cut short
Written(json) == [present |-> TRUE, whole |-> TRUE, json |-> json]
None == [some |-> FALSE]
Some(v) == [some |-> TRUE, value |-> v]
Ok == "ok"
Err == "err"

\* FileCache::new: the cleaning config hash is fixed at construction
FileCache_new(cfg) == [config_hash |-> cleaning_config_hash(cfg)]

\* cache_path: "{:016x}.cache" of the hash of the source path
cache_path(source_path) == <<default_hash(source_path), "cache">>

\* compute_content_hash: the hash of the file's bytes, or an error
compute_content_hash(dsk, path) ==
    IF dsk[path] = Missing THEN None ELSE Some(default_hash(dsk[path].bytes))

\* serde_json::to_writer(&entry)
serialize_entry(entry) ==
    Written([version |-> to_digits(entry.version),
             content_hash |-> to_digits(entry.content_hash),
             config_hash |-> to_digits(entry.config_hash),
             lines |-> [k \in 1..Len(entry.lines) |->
                          [line |-> json_escape(entry.lines[k].line),
                           line_number |-> to_digits(entry.lines[k].line_number),
                           hash |-> u32_to_digits(entry.lines[k].hash)]]])

\* serde_json::from_reader: the entry, or None when the file does not parse
deserialize_entry(file) ==
    IF ~file.whole
    THEN None
    ELSE Some([version |-> from_digits(file.json.version),
               content_hash |-> from_digits(file.json.content_hash),
               config_hash |-> from_digits(file.json.config_hash),
               lines |-> [k \in 1..Len(file.json.lines) |->
                            [line |-> json_unescape(file.json.lines[k].line),
                             line_number |-> from_digits(file.json.lines[k].line_number),
                             hash |-> u32_from_digits(file.json.lines[k].hash)]]])

\* the validated entry's lines as SourceLines
cached_source_lines(entry) ==
    [k \in 1..Len(entry.lines) |->
        SourceLine_from_cached(entry.lines[k].line, entry.lines[k].line_number,
                               entry.lines[k].hash)]

\* FileCache::get without the content-hash validation
FileCache_get_mutant(fc, files, dsk, source_path) ==
    LET file == files[cache_path(source_path)]
        parsed == deserialize_entry(file)
    IN IF ~file.present THEN None
       ELSE IF ~parsed.some THEN None
       ELSE IF parsed.value.version # CACHE_VERSION THEN None
       ELSE IF parsed.value.config_hash # fc.config_hash THEN None
       ELSE Some(cached_source_lines(parsed.value))

\* FileCache::get
FileCache_get(fc, files, dsk, source_path) ==
    LET file == files[cache_path(source_path)]
        parsed == deserialize_entry(file)
        current_hash == compute_content_hash(dsk, source_path)
    IN IF ~file.present THEN None
       ELSE IF ~parsed.some THEN None
       ELSE IF parsed.value.version # CACHE_VERSION THEN None
       ELSE IF parsed.value.config_hash # fc.config_hash THEN None
       ELSE IF ~current_hash.some THEN None
       ELSE IF parsed.value.content_hash # current_hash.value THEN None
       ELSE Some(cached_source_lines(parsed.value))

\* the CacheEntry FileCache::put builds
put_entry_mutant(fc, content_hash, lines) ==
    [version |-> CACHE_VERSION,
     content_hash |-> content_hash,
     config_hash |-> fc.config_hash,
     lines |-> [k \in 1..Len(lines) |->
                  [line |-> lines[k].line,
                   line_number |-> k,
                   hash |-> lines[k].hash]]]

put_entry(fc, content_hash, lines) ==
    [version |-> CACHE_VERSION,
     content_hash |-> content_hash,
     config_hash |-> fc.config_hash,
     lines |-> [k \in 1..Len(lines) |->
                  [line |-> lines[k].line,
                   line_number |-> lines[k].line_number,
                   hash |-> lines[k].hash]]]

(***************************************************************************)
(* SourceFile (core/source_file.rs).  A filename is its sequence of path   *)
(* components; the cleaned lines are given by their hashes.                *)
(***************************************************************************)
SourceFile_new(filename, lines) == [filename |-> filename, lines |-> lines]

num_lines(sf) == Len(sf.lines)

\* Path::file_name: the last component of the path
basename(sf) == sf.filename[Len(sf.filename)]

\* a comparison of the whole paths
has_same_basename_mutant(sf, other) == sf.filename = other.filename

\* SourceFile::has_same_basename
has_same_basename(sf, other) == basename(sf) = basename(other)

(***************************************************************************)
(* DuploResult and the detection run (core/processor.rs)                   *)
(***************************************************************************)
RECURSIVE SumCounts(_)
SumCounts(blocks) ==
    IF blocks = <<>> THEN 0 ELSE Head(blocks).count + SumCounts(Tail(blocks))

RECURSIVE SumLines(_)
SumLines(files) ==
    IF files = <<>> THEN 0 ELSE num_lines(Head(files)) + SumLines(Tail(files))

DuploResult(blocks, analyzed, total) ==
    [blocks |-> blocks,
     files_analyzed |-> analyzed,
     total_lines |-> total,
     duplicate_lines |-> SumCounts(blocks),
     duplicate_blocks |-> Len(blocks)]

NoResult == [blocks |-> <<>>, files_analyzed |-> 0, total_lines |-> 0,
             duplicate_lines |-> 0, duplicate_blocks |-> 0]

\* Config::effective_files_to_check().min(source_files.len()); 0 means all
effective_files_to_check_mutant(cfg, len) == len

effective_files_to_check(cfg, len) ==
    IF cfg.files_to_check = 0 THEN len ELSE Min(cfg.files_to_check, len)

\* the (file_idx, hash) pairs in the order build_hash_index visits them
RECURSIVE index_entries(_, _)
index_entries(files, file_idx) ==
    IF file_idx >= Len(files)
    THEN <<>>
    ELSE [k \in 1..num_lines(files[file_idx + 1]) |->
             [file_idx |-> file_idx, hash |-> files[file_idx + 1].lines[k]]]
         \o index_entries(files, file_idx + 1)

RECURSIVE files_of_hash(_, _)
files_of_hash(entries, h) ==
    IF entries = <<>>
    THEN <<>>
    ELSE IF Head(entries).hash = h
         THEN <<Head(entries).file_idx>> \o files_of_hash(Tail(entries), h)
         ELSE files_of_hash(Tail(entries), h)

\* build_hash_index: index.entry(line.hash()).or_default().push(file_idx)
build_hash_index(files) ==
    LET entries == index_entries(files, 0)
        hashes == {entries[k].hash : k \in 1..Len(entries)}
    IN [h \in hashes |-> files_of_hash(entries, h)]

get_matching_files_mutant(sf, index) ==
    IF num_lines(sf) = 0 \/ sf.lines[1] \notin DOMAIN index
    THEN {}
    ELSE {index[sf.lines[1]][e] : e \in 1..Len(index[sf.lines[1]])}

\* get_matching_files: the file indices listed under a hash of the file
get_matching_files(sf, index) ==
    UNION {{index[sf.lines[k]][e] : e \in 1..Len(index[sf.lines[k]])} :
             k \in {l \in 1..num_lines(sf) : sf.lines[l] \in DOMAIN index}}

\* the loop of a task over the files j > i, the scratch matrix carried along
RECURSIVE compare_subsequent(_, _, _, _, _, _, _)
compare_subsequent(files, cfg, matching, i, j, matrix, all_blocks) ==
    IF j >= Len(files)
    THEN all_blocks
    ELSE IF cfg.ignore_same_filename /\ has_same_basename(files[i + 1], files[j + 1])
         THEN compare_subsequent(files, cfg, matching, i, j + 1, matrix, all_blocks)
         ELSE IF j \notin matching
              THEN compare_subsequent(files, cfg, matching, i, j + 1, matrix, all_blocks)
              ELSE LET r == process_file_pair(files[i + 1].lines, files[j + 1].lines,
                                              i, j, cfg, matrix)
                   IN compare_subsequent(files, cfg, matching, i, j + 1, r.matrix,
                                         all_blocks \o r.blocks)

\* the closure run for outer index i: its all_blocks
task_blocks(files, cfg, index, maxl, i) ==
    LET src == files[i + 1]
        matching == get_matching_files(src, index)
        self == process_file_pair(src.lines, src.lines, i, i, cfg, ThreadContext_new(maxl))
    IN compare_subsequent(files, cfg, matching, i, i + 1, self.matrix, self.blocks)

\* results.into_iter().flatten().collect(): the per-task vectors in index order
RECURSIVE flatten_results(_, _)
flatten_results(res, i) ==
    IF i > Len(res) THEN <<>> ELSE res[i] \o flatten_results(res, i + 1)

\* the longest cleaned-line count of the loaded files
RECURSIVE longest(_)
longest(files) ==
    IF files = <<>> THEN 0 ELSE Max(num_lines(Head(files)), longest(Tail(files)))

\* the per-task vectors in the order the tasks completed
RECURSIVE collect_blocks_mutant_from(_, _)
collect_blocks_mutant_from(res, k) ==
    IF k > Len(finished)
    THEN <<>>
    ELSE res[finished[k] + 1] \o collect_blocks_mutant_from(res, k + 1)

collect_blocks_mutant(res) == collect_blocks_mutant_from(res, 1)

\* pool.install(.. into_par_iter().map(..).collect()) followed by flatten: the
\* indexed collect keeps the vectors in index order whatever order they finish in
collect_blocks(res) == flatten_results(res, 1)

\* the whole detection over a loaded file vector, task after task
detect_blocks(files, cfg) ==
    LET index == build_hash_index(files)
        f == effective_files_to_check(cfg, Len(files))
        maxl == longest(files)
    IN flatten_results([i \in 1..f |-> task_blocks(files, cfg, index, maxl, i - 1)], 1)

TaskIdle ==
    /\ task_context = <<>>
    /\ task_cursor = <<>>

CleanIdle ==
    /\ file_type = <<>>
    /\ raw_lines = <<>>
    /\ cleaner = <<>>
    /\ cleaned_lines = <<>>

AuxIdle == TaskIdle /\ CleanIdle

ProcessIdle ==
    /\ corpus = <<>>
    /\ main_pc = "idle"
    /\ exit_code = <<>>
    /\ stderr = {}
    /\ stdout = <<>>
    /\ changed_files = <<>>
    /\ runs = 0
    /\ baseline_origin = <<>>

MainIdle ==
    /\ baseline_file = <<>>
    /\ baseline = <<>>
    /\ baseline_ret = <<>>
    /\ ProcessIdle

CacheIdle ==
    /\ disk = <<>>
    /\ cache_files = <<>>
    /\ cache = <<>>
    /\ cache_ret = <<>>
    /\ put_log = <<>>

RunIdle ==
    /\ source_files = <<>>
    /\ max_lines = 0
    /\ hash_index = <<>>
    /\ files_to_check = 0
    /\ task_state = <<>>
    /\ results = <<>>
    /\ finished = <<>>
    /\ result = NoResult
    /\ run_pc = "idle"

(***************************************************************************)
(* SpecPair: one call of process_file_pair on a fresh ThreadContext, as    *)
(* the unit tests of processor.rs make it, for any pair of cleaned-line    *)
(* sequences (a self pair passes the same file and index twice).           *)
(***************************************************************************)
PairConfigs ==
    {Config(DefaultMinChars, b, pct, 0, 1, FALSE) : b \in 1..MaxB, pct \in PercentValues}

PairInit ==
    /\ config \in PairConfigs
    /\ \/ /\ source1 \in SeqUpTo(1..NumHashes, MaxLen)
          /\ source2 \in SeqUpTo(1..NumHashes, MaxLen)
          /\ source1_idx = 0
          /\ source2_idx = 1
       \/ /\ source1 \in SeqUpTo(1..NumSelfHashes, MaxSelfLen)
          /\ source2 = source1
          /\ source1_idx = 0
          /\ source2_idx = 0
    /\ context = ThreadContext_new(Max(Len(source1), Len(source2)))
    /\ pair_min_block_size = 0
    /\ pair_blocks = <<>>
    /\ pair_pc = "ready"
    /\ RunIdle
    /\ CacheIdle
    /\ MainIdle
    /\ AuxIdle

ProcessFilePair ==
    /\ pair_pc = "ready"
    /\ LET r == process_file_pair(source1, source2, source1_idx, source2_idx,
                                  config, context)
       IN /\ pair_blocks' = r.blocks
          /\ context' = r.matrix
          /\ pair_min_block_size' = r.min_block_size
    /\ pair_pc' = "done"
    /\ UNCHANGED <<main_vars, config, source1, source2, source1_idx, source2_idx, run_vars,
                   cache_vars, aux_vars>>

PairNext == ProcessFilePair

SpecPair == PairInit /\ [][PairNext]_vars

(***************************************************************************)
(* Claims about process_file_pair (SpecPair)                               *)
(***************************************************************************)
PairDone == pair_pc = "done"
PairBlocks == {pair_blocks[i] : i \in 1..Len(pair_blocks)}

\* hash equality of the two lines at offset k of block b
LinesMatch(b, k) ==
    /\ b.line1 + k < Len(source1)
    /\ b.line2 + k < Len(source2)
    /\ source1[b.line1 + k + 1] = source2[b.line2 + k + 1]

\* C1: every block process_file_pair emits has hash-equal lines at all of its
\* count offsets: source1[line1+k] = source2[line2+k] for k in [0, count).
C1_BlockValidity ==
    PairDone => \A b \in PairBlocks : \A k \in 0..(b.count - 1) : LinesMatch(b, k)

\* C2: an emitted block cannot be extended at either end: the line before it
\* and the line after it are out of bounds or differ in hash.
C2_DiagonalMaximality ==
    PairDone =>
      \A b \in PairBlocks :
        /\ b.line1 = 0 \/ b.line2 = 0
             \/ source1[b.line1] # source2[b.line2]
        /\ b.line1 + b.count = Len(source1) \/ b.line2 + b.count = Len(source2)
             \/ source1[b.line1 + b.count + 1] # source2[b.line2 + b.count + 1]

\* the threshold term of calc_min_block_size for the pair in the state
PairThreshold ==
    (Max(Len(source1), Len(source2)) * 100) \div config.block_percent_threshold

\* C8 (as claimed): the effective minimum is B at P = 100, never below B, and
\* greater than B for a small P (0 < P < 100) and files long enough that the
\* threshold term exceeds B.
C8_PercentRaisesMinimum ==
    (PairDone /\ Len(source1) > 0 /\ Len(source2) > 0) =>
      /\ config.block_percent_threshold = 100 => pair_min_block_size = config.min_block_size
      /\ pair_min_block_size >= config.min_block_size
      /\ (/\ config.block_percent_threshold > 0
          /\ config.block_percent_threshold < 100
          /\ PairThreshold > config.min_block_size)
         => pair_min_block_size > config.min_block_size

\* the file of a self pair holds one k-line block twice, at p and at q, and
\* has no other two equal lines
SelfDuplicate(p, q, k) ==
    /\ source1_idx = source2_idx
    /\ k >= config.min_block_size
    /\ p + k <= q
    /\ q + k <= Len(source1)
    /\ \A a, b \in 0..(Len(source1) - 1) :
         a < b =>
           ((source1[a + 1] = source1[b + 1])
              <=> (p <= a /\ a < p + k /\ b = a + (q - p)))

SelfPositions ==
    {t \in (0..MaxSelfLen) \X (0..MaxSelfLen) \X (1..MaxSelfLen) :
        SelfDuplicate(t[1], t[2], t[3])}

\* C7 (as claimed): such a file yields exactly one self-block, with line1 = p
\* (the earlier copy) and line2 = q (the later copy).
C7_SelfBlockEarlierFirst ==
    PairDone =>
      \A t \in SelfPositions :
        pair_blocks = <<Block_new(source1_idx, source1_idx, t[1], t[2], t[3])>>

\* C7 (amended): such a file yields exactly one self-block of count k, with
\* line1 = q (the later copy) and line2 = p (the earlier copy).
C7_SelfBlockLaterFirst ==
    PairDone =>
      \A t \in SelfPositions :
        pair_blocks = <<Block_new(source1_idx, source1_idx, t[2], t[1], t[3])>>

\* a self-compared file with a two-line block at 0 and at 2 has been scanned
C7_Witness ==
    /\ PairDone
    /\ SelfDuplicate(0, 2, 2)
    /\ pair_blocks = <<Block_new(0, 0, 2, 0, 2)>>

(***************************************************************************)
(* SpecRun: process_files_with_cache from the loaded file vector on.  The  *)
(* loader keeps only files with at least one cleaned line.  File k of the  *)
(* list has the path <<k, (k + 1) div 2>>: the first two share a basename. *)
(***************************************************************************)
RunMaxFiles == 2   \* most files in the corpus
RunMaxLen == 2     \* longest cleaned-line sequence of a corpus file

RunHashValues == {1, 2}
RunBlockSizes == {1, 2}
RunPercentValues == {50, 100}
RunFileCaps == {0, 1}
RunThreadCounts == {1, 2}

RunContents == SeqUpTo(RunHashValues, RunMaxLen) \ {<<>>}

RunCorpora ==
    UNION {{[k \in 1..f |-> SourceFile_new(<<k, (k + 1) \div 2>>, c[k])] :
               c \in [1..f -> RunContents]} : f \in 0..RunMaxFiles}

PairIdle ==
    /\ source1 = <<>>
    /\ source2 = <<>>
    /\ source1_idx = 0
    /\ source2_idx = 0
    /\ context = <<>>
    /\ pair_min_block_size = 0
    /\ pair_blocks = <<>>
    /\ pair_pc = "idle"

RunInit ==
    /\ config \in {Config(DefaultMinChars, b, pct, cap, t, flag) :
                      b \in RunBlockSizes, pct \in RunPercentValues, cap \in RunFileCaps,
                      t \in RunThreadCounts, flag \in BOOLEAN}
    /\ source_files \in RunCorpora
    /\ max_lines = longest(source_files)
    /\ hash_index = <<>>
    /\ files_to_check = 0
    /\ task_state = <<>>
    /\ results = <<>>
    /\ finished = <<>>
    /\ result = NoResult
    /\ run_pc = "loaded"
    /\ PairIdle
    /\ CacheIdle
    /\ MainIdle
    /\ AuxIdle

\* source_files.is_empty(): the early return with an all-zero result
EmptyCorpus ==
    /\ run_pc = "loaded"
    /\ source_files = <<>>
    /\ result' = DuploResult(<<>>, 0, 0)
    /\ run_pc' = "done"
    /\ UNCHANGED <<main_vars, config, pair_vars, aux_vars, cache_vars, source_files, max_lines, hash_index, files_to_check,
                   task_state, results, finished>>

\* build the index, fix the number of tasks, hand the tasks to the pool
BuildIndex ==
    /\ run_pc = "loaded"
    /\ source_files # <<>>
    /\ hash_index' = build_hash_index(source_files)
    /\ files_to_check' = effective_files_to_check(config, Len(source_files))
    /\ task_state' = [i \in 1..files_to_check' |-> "pending"]
    /\ results' = [i \in 1..files_to_check' |-> <<>>]
    /\ run_pc' = "processing"
    /\ UNCHANGED <<main_vars, config, pair_vars, aux_vars, cache_vars, source_files, max_lines, finished, result>>

Running == {i \in DOMAIN task_state : task_state[i] = "running"}

\* a worker of the pool takes the task of outer index i (any pending one)
StartTask(i) ==
    /\ run_pc = "processing"
    /\ task_state[i + 1] = "pending"
    /\ Cardinality(Running) < config.num_threads
    /\ task_state' = [task_state EXCEPT ![i + 1] = "running"]
    /\ UNCHANGED <<main_vars, config, pair_vars, aux_vars, cache_vars, source_files, max_lines, hash_index, files_to_check,
                   results, finished, result, run_pc>>

\* the task of outer index i returns its all_blocks
FinishTask(i) ==
    /\ run_pc = "processing"
    /\ task_state[i + 1] = "running"
    /\ task_state' = [task_state EXCEPT ![i + 1] = "done"]
    /\ results' = [results EXCEPT
                     ![i + 1] = task_blocks(source_files, config, hash_index, max_lines, i)]
    /\ finished' = Append(finished, i)
    /\ UNCHANGED <<main_vars, config, pair_vars, aux_vars, cache_vars, source_files, max_lines, hash_index, files_to_check,
                   result, run_pc>>

\* the pool has drained: concatenate and count
Aggregate ==
    /\ run_pc = "processing"
    /\ \A i \in DOMAIN task_state : task_state[i] = "done"
    /\ result' = DuploResult(collect_blocks(results), files_to_check,
                             SumLines(source_files))
    /\ run_pc' = "done"
    /\ UNCHANGED <<main_vars, config, pair_vars, aux_vars, cache_vars, source_files, max_lines, hash_index, files_to_check,
                   task_state, results, finished>>

RunNext ==
    \/ EmptyCorpus
    \/ BuildIndex
    \/ \E i \in 0..(files_to_check - 1) : StartTask(i)
    \/ \E i \in 0..(files_to_check - 1) : FinishTask(i)
    \/ Aggregate

SpecRun == RunInit /\ [][RunNext]_vars

(***************************************************************************)
(* Claims about the detection run (SpecRun)                                *)
(***************************************************************************)
RunDone == run_pc = "done"
ResultBlocks == {result.blocks[k] : k \in 1..Len(result.blocks)}
FileLines(i) == source_files[i + 1].lines

\* C4: every block of the result has count >= the effective minimum of its
\* pair and >= the configured min_block_size (>= 1), source1_idx <=
\* source2_idx, and line1 # line2 when the two indices are equal.
C4_StructuralInvariants ==
    RunDone =>
      \A b \in ResultBlocks :
        /\ b.count >= calc_min_block_size(config, Len(FileLines(b.source1_idx)),
                                          Len(FileLines(b.source2_idx)))
        /\ b.count >= config.min_block_size
        /\ b.count >= 1
        /\ b.source1_idx <= b.source2_idx
        /\ b.source1_idx = b.source2_idx => b.line1 # b.line2

\* a finished run whose result holds a self-block and a block of two files
C4_Witness ==
    /\ RunDone
    /\ \E b \in ResultBlocks : b.source1_idx = b.source2_idx
    /\ \E b \in ResultBlocks : b.source1_idx < b.source2_idx /\ b.count = 2

\* the two files share a line hash
SharesHash(i, j) ==
    \E a \in 1..Len(FileLines(i)), b \in 1..Len(FileLines(j)) :
        FileLines(i)[a] = FileLines(j)[b]

\* the pair (i, j), i < j, is compared
IsPartner(i, j) ==
    /\ SharesHash(i, j)
    /\ ~(config.ignore_same_filename
         /\ has_same_basename(source_files[i + 1], source_files[j + 1]))

\* the blocks of one pair on a fresh all-zero matrix: the vertical pass, then
\* (two files) the horizontal pass
FreshPairBlocks(i, j) ==
    LET s1 == FileLines(i)
        s2 == FileLines(j)
        p == [matrix |-> populate_matrix(ThreadContext_new(max_lines), s1, s2),
              m |-> Len(s1), n |-> Len(s2),
              min_block_size |-> calc_min_block_size(config, Len(s1), Len(s2)),
              is_same_file |-> (i = j),
              source1_idx |-> i, source2_idx |-> j]
    IN IF i = j
       THEN vertical_scan(p, 0, <<>>)
       ELSE vertical_scan(p, 0, <<>>) \o horizontal_scan(p, 1, <<>>)

RECURSIVE ExpectedPartners(_, _)
ExpectedPartners(i, j) ==
    IF j >= Len(source_files)
    THEN <<>>
    ELSE (IF IsPartner(i, j) THEN FreshPairBlocks(i, j) ELSE <<>>)
         \o ExpectedPartners(i, j + 1)

RECURSIVE ExpectedVector(_)
ExpectedVector(i) ==
    IF i >= effective_files_to_check(config, Len(source_files))
    THEN <<>>
    ELSE FreshPairBlocks(i, i) \o ExpectedPartners(i, i + 1) \o ExpectedVector(i + 1)

\* C6: for every thread count and every interleaving of the tasks the final
\* block vector is the concatenation, in increasing outer index i, of the
\* task vectors (self pair, then the partners j in increasing order, vertical
\* before horizontal blocks): a function of corpus and configuration alone.
C6_TaskOrder == RunDone => result.blocks = ExpectedVector(0)

\* two workers, the task of index 1 completed before the task of index 0,
\* and both tasks returned blocks
C6_Witness ==
    /\ RunDone
    /\ config.num_threads = 2
    /\ finished = <<1, 0>>
    /\ results[1] # <<>>
    /\ results[2] # <<>>
    /\ results[1] # results[2]

\* a maximal diagonal run of k hash-equal lines from (a, b)
MaximalRun(s1, s2, a, b, k) ==
    /\ a + k <= Len(s1)
    /\ b + k <= Len(s2)
    /\ \A t \in 0..(k - 1) : s1[a + t + 1] = s2[b + t + 1]
    /\ a = 0 \/ b = 0 \/ s1[a] # s2[b]
    /\ a + k = Len(s1) \/ b + k = Len(s2) \/ s1[a + k + 1] # s2[b + k + 1]

\* the runs a pair (i, j) has to report: length >= the effective minimum; in
\* a file compared with itself each run between two offsets once (a > b)
RunsToReport(i, j) ==
    LET s1 == FileLines(i)
        s2 == FileLines(j)
    IN {t \in (0..Len(s1)) \X (0..Len(s2)) \X (1..Max(Len(s1), Len(s2))) :
          /\ MaximalRun(s1, s2, t[1], t[2], t[3])
          /\ t[3] >= calc_min_block_size(config, Len(s1), Len(s2))
          /\ i = j => t[1] > t[2]}

BlocksOfPair(i, j) ==
    {k \in 1..Len(result.blocks) :
        result.blocks[k].source1_idx = i /\ result.blocks[k].source2_idx = j}

\* C3: without file cap and same-filename flag, the blocks emitted for each
\* pair i <= j correspond one-to-one to its maximal diagonal runs of length
\* >= the effective minimum: none missed, none twice, each with its length.
C3_Completeness ==
    (RunDone /\ config.files_to_check = 0 /\ ~config.ignore_same_filename) =>
      \A i \in 0..(Len(source_files) - 1) : \A j \in i..(Len(source_files) - 1) :
        /\ {<<result.blocks[k].line1, result.blocks[k].line2, result.blocks[k].count>> :
              k \in BlocksOfPair(i, j)} = RunsToReport(i, j)
        /\ Cardinality(BlocksOfPair(i, j)) = Cardinality(RunsToReport(i, j))

\* the fingerprint of a block: the unordered pair of paths, the line hashes of
\* the block in its source1, the count
Fingerprint(files, b) ==
    [paths |-> {files[b.source1_idx + 1].filename, files[b.source2_idx + 1].filename},
     hashes |-> SubSeq(files[b.source1_idx + 1].lines, b.line1 + 1, b.line1 + b.count),
     count |-> b.count]

Fingerprints(files, blocks) == [k \in 1..Len(blocks) |-> Fingerprint(files, blocks[k])]

Occurrences(seq, x) == Cardinality({k \in 1..Len(seq) : seq[k] = x})

SameMultiset(s, t) ==
    \A k \in 1..Len(s \o t) : Occurrences(s, (s \o t)[k]) = Occurrences(t, (s \o t)[k])

Permute(files, perm) == [k \in 1..Len(files) |-> files[perm[k]]]

\* C5: without file cap and same-filename flag, detection over any
\* permutation of the file list yields the same multiset of fingerprints.
C5_ReorderingInvariance ==
    (RunDone /\ config.files_to_check = 0 /\ ~config.ignore_same_filename) =>
      \A perm \in Permutations(1..Len(source_files)) :
        SameMultiset(
          Fingerprints(Permute(source_files, perm),
                       detect_blocks(Permute(source_files, perm), config)),
          Fingerprints(source_files, result.blocks))

(***************************************************************************)
(* SpecCache: a cache directory used by FileCache objects over a sequence  *)
(* of runs: put, get, clear_cache, edits of the source file, runs with     *)
(* another configuration, and entries left by a build with another         *)
(* CACHE_VERSION.                                                          *)
(***************************************************************************)
MaxCacheLines == 2   \* most cleaned lines in a put

\* source paths (their bytes): "a.c"
CacheSourcePaths == {<<97, 46, 99>>}

\* raw file contents; the second differs from the first in one byte
RawContents == {Readable(<<105, 110, 116, 10>>), Readable(<<105, 110, 117, 10>>)}

\* the cleaned lines a put may be given: 'a "\' at line 2, 'a b' at line 4
CacheLineChoices ==
    {SourceLine_new(<<97, 32, 34, 92>>, 2), SourceLine_new(<<97, 32, 98>>, 4)}

\* the default configuration with min_chars 3 or 5 and at most one of
\* min_block_size, the percent threshold and the same-filename flag changed
CacheConfigs ==
    {Config(mc, d[1], d[2], 0, 1, d[3]) :
        mc \in {DefaultMinChars, 5},
        d \in {<<DefaultMinBlockSize, DefaultPercent, FALSE>>,
               <<10, DefaultPercent, FALSE>>,
               <<DefaultMinBlockSize, 50, FALSE>>,
               <<DefaultMinBlockSize, DefaultPercent, TRUE>>}}

CacheInit ==
    /\ config \in CacheConfigs
    /\ disk \in [CacheSourcePaths -> RawContents \cup {Missing}]
    /\ cache_files = [f \in {cache_path(sp) : sp \in CacheSourcePaths} |-> Absent]
    /\ cache = FileCache_new(config)
    /\ cache_ret = [op |-> "new"]
    /\ put_log = [sp \in CacheSourcePaths |-> None]
    /\ PairIdle
    /\ RunIdle
    /\ MainIdle
    /\ AuxIdle

\* FileCache::get(path)
CacheGet(path) ==
    /\ cache_ret' = [op |-> "get", path |-> path,
                     value |-> FileCache_get(cache, cache_files, disk, path)]
    /\ UNCHANGED <<main_vars, config, pair_vars, aux_vars, run_vars, disk, cache_files, cache, put_log>>

\* FileCache::put(path, lines) returning Ok
CachePut(path, lines) ==
    /\ disk[path] # Missing
    /\ cache_files' =
         [cache_files EXCEPT ![cache_path(path)] =
            serialize_entry(put_entry(cache, compute_content_hash(disk, path).value, lines))]
    /\ cache_ret' = [op |-> "put", path |-> path, value |-> Ok]
    /\ put_log' = [put_log EXCEPT ![path] =
                     Some([lines |-> lines, bytes |-> disk[path].bytes, config |-> config])]
    /\ UNCHANGED <<main_vars, config, pair_vars, aux_vars, run_vars, disk, cache>>

\* FileCache::put(path, _) when the source cannot be read: Err, no write
CachePutUnreadable(path) ==
    /\ disk[path] = Missing
    /\ cache_ret' = [op |-> "put", path |-> path, value |-> Err]
    /\ UNCHANGED <<main_vars, config, pair_vars, aux_vars, run_vars, disk, cache_files, cache, put_log>>

\* FileCache::put(path, _) when the write fails after File::create
CachePutWriteError(path) ==
    /\ disk[path] # Missing
    /\ cache_files' = [cache_files EXCEPT ![cache_path(path)] = Truncated]
    /\ cache_ret' = [op |-> "put", path |-> path, value |-> Err]
    /\ put_log' = [put_log EXCEPT ![path] = None]
    /\ UNCHANGED <<main_vars, config, pair_vars, aux_vars, run_vars, disk, cache>>

\* clear_cache: every .cache file of the directory is removed
ClearCache ==
    /\ cache_files' = [f \in DOMAIN cache_files |-> Absent]
    /\ cache_ret' = [op |-> "clear"]
    /\ put_log' = [sp \in DOMAIN put_log |-> None]
    /\ UNCHANGED <<main_vars, config, pair_vars, aux_vars, run_vars, disk, cache>>

\* the source file is rewritten or removed between two calls
EditSource(path, bytes) ==
    /\ bytes # disk[path]
    /\ disk' = [disk EXCEPT ![path] = bytes]
    /\ cache_ret' = [op |-> "edit"]
    /\ UNCHANGED <<main_vars, config, pair_vars, aux_vars, run_vars, cache_files, cache, put_log>>

\* a later run with another configuration: FileCache::new(&config)
Reconfigure(cfg) ==
    /\ cfg # config
    /\ config' = cfg
    /\ cache' = FileCache_new(cfg)
    /\ cache_ret' = [op |-> "new"]
    /\ UNCHANGED <<main_vars, pair_vars, aux_vars, run_vars, disk, cache_files, put_log>>

\* a build with another CACHE_VERSION has put the file's entry
OtherVersionPut(path) ==
    /\ disk[path] # Missing
    /\ cache_files' =
         [cache_files EXCEPT ![cache_path(path)] =
            serialize_entry(
              [put_entry(cache, compute_content_hash(disk, path).value, <<>>)
                 EXCEPT !.version = CACHE_VERSION + 1])]
    /\ cache_ret' = [op |-> "other"]
    /\ put_log' = [put_log EXCEPT ![path] = None]
    /\ UNCHANGED <<main_vars, config, pair_vars, aux_vars, run_vars, disk, cache>>

CacheNext ==
    \/ \E path \in CacheSourcePaths : CacheGet(path)
    \/ \E path \in CacheSourcePaths, lines \in SeqUpTo(CacheLineChoices, MaxCacheLines) :
          CachePut(path, lines)
    \/ \E path \in CacheSourcePaths : CachePutUnreadable(path)
    \/ \E path \in CacheSourcePaths : CachePutWriteError(path)
    \/ ClearCache
    \/ \E path \in CacheSourcePaths, bytes \in RawContents \cup {Missing} :
          EditSource(path, bytes)
    \/ \E cfg \in CacheConfigs : Reconfigure(cfg)
    \/ \E path \in CacheSourcePaths : OtherVersionPut(path)

SpecCache == CacheInit /\ [][CacheNext]_vars

(***************************************************************************)
(* Claims about the cache                                                  *)
(***************************************************************************)
GetReturned == cache_ret.op = "get"

\* two line sequences agree in length and, position by position, in text,
\* line number and hash
SameLines(got, put) ==
    /\ Len(got) = Len(put)
    /\ \A k \in 1..Len(put) :
          /\ got[k].line = put[k].line
          /\ got[k].line_number = put[k].line_number
          /\ got[k].hash = put[k].hash

\* the put whose entry is the path's cache file was made with the bytes the
\* source has now and the min_chars configured now
PutStillCurrent(path) ==
    /\ put_log[path].some
    /\ disk[path] = Readable(put_log[path].value.bytes)
    /\ config.min_chars = put_log[path].value.config.min_chars

\* C9: after put(path, lines) has succeeded, and while the entry it wrote is
\* the path's cache file and the source file's bytes and min_chars are what
\* they were at the put, get(path) returns
\* lines of the same length and order whose every element has the text, the
\* line number and the hash that was put.
C9_CacheRoundTrip ==
    (GetReturned /\ PutStillCurrent(cache_ret.path))
        => /\ cache_ret.value.some
           /\ SameLines(cache_ret.value.value, put_log[cache_ret.path].value.lines)

\* a get after a put of two lines, one of them with characters JSON escapes
C9_Witness ==
    /\ GetReturned
    /\ PutStillCurrent(cache_ret.path)
    /\ Len(put_log[cache_ret.path].value.lines) = 2
    /\ \E k \in 1..2 : \E j \in 1..Len(put_log[cache_ret.path].value.lines[k].line) :
          put_log[cache_ret.path].value.lines[k].line[j] = 34
    /\ cache_ret.value.some

\* the conditions of a hit, read off the cache directory and the source file
EntryMatches(cfg, files, dsk, path) ==
    LET file == files[cache_path(path)]
    IN /\ file.present
       /\ file.whole
       /\ from_digits(file.json.version) = CACHE_VERSION
       /\ from_digits(file.json.config_hash) = default_hash(<<cfg.min_chars>>)
       /\ dsk[path].readable
       /\ from_digits(file.json.content_hash) = default_hash(dsk[path].bytes)

\* what a get has returned, against the directory and the source it read
GetResult(ret, cfg, files, dsk) ==
    ret.op = "get" =>
        /\ ret.value.some \in BOOLEAN
        /\ ret.value.some <=> EntryMatches(cfg, files, dsk, ret.path)
        /\ ret.value.some =>
              ret.value.value =
                 cached_source_lines(deserialize_entry(files[cache_path(ret.path)]).value)

Hit(fc, files, dsk, path) == FileCache_get(fc, files, dsk, path).some

\* a step that changes the bytes or min_chars ends a hit; a step that changes
\* neither them nor the cache directory keeps hits and misses as they are
HitAcrossStep(path) ==
    /\ (Hit(cache, cache_files, disk, path) /\ disk'[path] # disk[path]
           /\ cache_files' = cache_files /\ config' = config)
          => ~Hit(cache', cache_files', disk', path)
    /\ (Hit(cache, cache_files, disk, path) /\ config'.min_chars # config.min_chars
           /\ disk' = disk /\ cache_files' = cache_files)
          => ~Hit(cache', cache_files', disk', path)
    /\ (config'.min_chars = config.min_chars /\ disk' = disk
           /\ cache_files' = cache_files)
          => (Hit(cache', cache_files', disk', path) <=> Hit(cache, cache_files, disk, path))

\* C10: get(path) returns the cached lines exactly when the path's entry file
\* exists, parses, has the current cache version, has the cleaning-config
\* hash of the current min_chars and has the content hash of the source's
\* current bytes, and returns None, never an error, otherwise; so a change
\* of the bytes or of min_chars turns a hit into a miss, and a change of
\* only min_block_size, the percent threshold or the same-filename flag
\* leaves a hit a hit.
C10_HitCondition ==
    [][/\ GetResult(cache_ret', config', cache_files', disk')
       /\ \A path \in CacheSourcePaths : HitAcrossStep(path)]_vars

\* a hit on an entry put under another min_block_size and same-filename flag
C10_Witness ==
    /\ GetReturned
    /\ cache_ret.value.some
    /\ put_log[cache_ret.path].some
    /\ put_log[cache_ret.path].value.config.min_block_size # config.min_block_size
    /\ put_log[cache_ret.path].value.config.ignore_same_filename # config.ignore_same_filename

(***************************************************************************)
(* The source loader (core/source_file.rs, filetype/mod.rs,                *)
(* filetype/unknown.rs, core/processor.rs).  File contents are byte        *)
(* sequences; the paths of the model have an extension no cleaner knows,   *)
(* so UnknownFileType cleans them.                                         *)
(***************************************************************************)
\* the bytes of the model are ASCII or 255; 255 occurs in no UTF-8 text
is_utf8(bytes) == \A k \in 1..Len(bytes) : bytes[k] < 128

\* char::is_whitespace on ASCII: tab, LF, VT, FF, CR, space
is_whitespace(b) == b \in {9, 10, 11, 12, 13, 32}

\* char::is_alphabetic on ASCII
is_alphabetic(b) == (b >= 65 /\ b <= 90) \/ (b >= 97 /\ b <= 122)

RECURSIVE trim_start(_)
trim_start(line) ==
    IF line # <<>> /\ is_whitespace(Head(line)) THEN trim_start(Tail(line)) ELSE line

RECURSIVE trim_end(_)
trim_end(line) ==
    IF line # <<>> /\ is_whitespace(line[Len(line)])
    THEN trim_end(SubSeq(line, 1, Len(line) - 1))
    ELSE line

\* str::trim
trim(line) == trim_end(trim_start(line))

\* filetype::clean_whitespace
clean_whitespace(line) == trim(line)

\* filetype::is_valid_line
is_valid_line(line, min_chars) ==
    LET trimmed == trim(line)
    IN /\ Len(trimmed) >= min_chars
       /\ \E k \in 1..Len(trimmed) : is_alphabetic(trimmed[k])

\* BufRead::lines: split at LF, the LF and a CR before it dropped; a last line
\* without LF counts, an empty rest after the last LF does not
RECURSIVE buf_lines(_, _)
buf_lines(bytes, current) ==
    IF bytes = <<>>
    THEN IF current = <<>> THEN <<>> ELSE <<current>>
    ELSE IF Head(bytes) = 10
         THEN <<IF current # <<>> /\ current[Len(current)] = 13
                THEN SubSeq(current, 1, Len(current) - 1)
                ELSE current>> \o buf_lines(Tail(bytes), <<>>)
         ELSE buf_lines(Tail(bytes), Append(current, Head(bytes)))

\* UnknownFileType::get_cleaned_source_lines, from raw line number line_num on
RECURSIVE get_cleaned_source_lines(_, _, _)
get_cleaned_source_lines(lines, line_num, min_chars) ==
    IF line_num > Len(lines)
    THEN <<>>
    ELSE LET cleaned == clean_whitespace(lines[line_num])
             rest == get_cleaned_source_lines(lines, line_num + 1, min_chars)
         IN IF cleaned # <<>> /\ is_valid_line(cleaned, min_chars)
            THEN <<SourceLine_new(cleaned, line_num)>> \o rest
            ELSE rest

\* SourceFile::load: Err when the file cannot be opened or is not UTF-8
SourceFile_load(dsk, path, min_chars) ==
    IF ~dsk[path].readable \/ ~is_utf8(dsk[path].bytes)
    THEN None
    ELSE Some(SourceFile_new(path,
                 get_cleaned_source_lines(buf_lines(dsk[path].bytes, <<>>), 1, min_chars)))

\* SourceFile::from_cached_lines(path, lines)
SourceFile_from_cached_lines(path, lines) == SourceFile_new(path, lines)

\* FileCache::put: its return value and the cache directory it leaves;
\* write_fails: the write after File::create fails
FileCache_put(fc, files, dsk, path, lines, write_fails) ==
    LET content_hash == compute_content_hash(dsk, path)
    IN IF ~content_hash.some
       THEN [ret |-> Err, files |-> files]
       ELSE IF write_fails
       THEN [ret |-> Err, files |-> [files EXCEPT ![cache_path(path)] = Truncated]]
       ELSE [ret |-> Ok,
             files |-> [files EXCEPT ![cache_path(path)] =
                          serialize_entry(put_entry(fc, content_hash.value, lines))]]

\* max_lines * max_lines > MAX_BITS_PER_THREAD (8_000_000_000), as a bound on max_lines
exceeds_matrix_limit(maxl) == maxl > 89442

\* the loader's state before the first path
LoadStart(files) ==
    [source_files |-> <<>>, max_lines |-> 0, cache_hits |-> 0, warnings |-> <<>>,
     cache_files |-> files, puts |-> <<>>]

\* one iteration of the loader's loop without the cache lookup
load_from_disk_mutant(path, cfg, fc, dsk, failing, st) ==
    LET loaded == SourceFile_load(dsk, path, cfg.min_chars)
    IN IF ~loaded.some
       THEN st
       ELSE IF num_lines(loaded.value) = 0
       THEN st
       ELSE [st EXCEPT !.max_lines = Max(@, num_lines(loaded.value)),
                       !.source_files = Append(@, loaded.value)]

\* the loader's "Load from disk" branch for one path
load_from_disk(path, cfg, fc, dsk, failing, st) ==
    LET loaded == SourceFile_load(dsk, path, cfg.min_chars)
    IN IF ~loaded.some
       THEN [st EXCEPT !.warnings = Append(@, [kind |-> "load", path |-> path])]
       ELSE IF num_lines(loaded.value) = 0
       THEN st
       ELSE LET put == IF fc.some
                       THEN FileCache_put(fc.value, st.cache_files, dsk, path,
                                          loaded.value.lines, path \in failing)
                       ELSE [ret |-> Ok, files |-> st.cache_files]
            IN [st EXCEPT
                  !.cache_files = put.files,
                  !.puts = IF fc.some
                           THEN Append(@, [path |-> path, ret |-> put.ret,
                                           lines |-> loaded.value.lines])
                           ELSE @,
                  !.warnings = IF put.ret = Err
                               THEN Append(@, [kind |-> "cache", path |-> path])
                               ELSE @,
                  !.max_lines = Max(@, num_lines(loaded.value)),
                  !.source_files = Append(@, loaded.value)]

\* the loader trusting whatever entry file it finds
load_one_mutant(path, cfg, fc, dsk, failing, st) ==
    LET file == st.cache_files[cache_path(path)]
    IN IF fc.some /\ file.present /\ file.whole
       THEN LET sf == SourceFile_from_cached_lines(path,
                         cached_source_lines(deserialize_entry(file).value))
            IN IF num_lines(sf) > 0
               THEN [st EXCEPT !.max_lines = Max(@, num_lines(sf)),
                               !.source_files = Append(@, sf),
                               !.cache_hits = @ + 1]
               ELSE st
       ELSE load_from_disk(path, cfg, fc, dsk, failing, st)

\* one iteration of the loader's loop
load_one(path, cfg, fc, dsk, failing, st) ==
    LET hit == IF fc.some
               THEN FileCache_get(fc.value, st.cache_files, dsk, path)
               ELSE None
    IN IF hit.some
       THEN LET sf == SourceFile_from_cached_lines(path, hit.value)
            IN IF num_lines(sf) > 0
               THEN [st EXCEPT !.max_lines = Max(@, num_lines(sf)),
                               !.source_files = Append(@, sf),
                               !.cache_hits = @ + 1]
               ELSE st
       ELSE load_from_disk(path, cfg, fc, dsk, failing, st)

RECURSIVE load_loop(_, _, _, _, _, _)
load_loop(file_list, cfg, fc, dsk, failing, st) ==
    IF file_list = <<>>
    THEN st
    ELSE load_loop(Tail(file_list), cfg, fc, dsk, failing,
                   load_one(Head(file_list), cfg, fc, dsk, failing, st))

\* load_source_files_with_cache: fc is None or Some(FileCache); failing is
\* the set of paths whose cache write fails
load_source_files_with_cache(file_list, cfg, fc, files, dsk, failing) ==
    LET st == load_loop(file_list, cfg, fc, dsk, failing, LoadStart(files))
    IN [ret |-> IF exceeds_matrix_limit(st.max_lines) THEN Err ELSE Ok,
        source_files |-> st.source_files,
        max_lines |-> st.max_lines,
        cache_hits |-> st.cache_hits,
        warnings |-> st.warnings,
        cache_files |-> st.cache_files,
        puts |-> st.puts]

\* load_source_files: the loader without cache
load_source_files(file_list, cfg, dsk) ==
    load_source_files_with_cache(file_list, cfg, None, <<>>, dsk, {})

(***************************************************************************)
(* SpecLoad: runs of the loader with the cache enabled, over a cache       *)
(* directory that persists between the runs; between two runs source files *)
(* are edited or removed, min_chars changes, the cache is cleared, or a    *)
(* build with another CACHE_VERSION leaves an entry.                       *)
(***************************************************************************)
MaxFileList == 2   \* longest file list of a run

\* source paths: "a.t" and "b.t"
LoadPaths == {<<97, 46, 116>>, <<98, 46, 116>>}

\* what a path may hold: " abcde\r\nabc\n12\n" or nothing, and "abc\n" for
\* "a.t", "abc\n" followed by a byte that is not UTF-8 for "b.t"
LoadContents(path) ==
    {Readable(<<32, 97, 98, 99, 100, 101, 13, 10, 97, 98, 99, 10, 49, 50, 10>>),
     IF path[1] = 97 THEN Readable(<<97, 98, 99, 10>>) ELSE Readable(<<97, 98, 99, 10, 255>>),
     Missing}

LoadConfigs == {Config(mc, DefaultMinBlockSize, DefaultPercent, 0, 1, FALSE) : mc \in {DefaultMinChars, 5}}

LoadInit ==
    /\ config \in LoadConfigs
    /\ disk \in {d \in [LoadPaths -> UNION {LoadContents(sp) : sp \in LoadPaths}] :
                   \A sp \in LoadPaths : d[sp] \in LoadContents(sp)}
    /\ cache_files = [f \in {cache_path(sp) : sp \in LoadPaths} |-> Absent]
    /\ cache = FileCache_new(config)
    /\ cache_ret = [op |-> "new"]
    /\ put_log = [sp \in LoadPaths |-> None]
    /\ PairIdle
    /\ RunIdle
    /\ MainIdle
    /\ AuxIdle

\* the puts of a run, entered in the history of puts
RECURSIVE log_puts(_, _, _, _)
log_puts(log, puts, dsk, cfg) ==
    IF puts = <<>>
    THEN log
    ELSE log_puts([log EXCEPT ![Head(puts).path] =
                      IF Head(puts).ret = Ok
                      THEN Some([lines |-> Head(puts).lines,
                                 bytes |-> dsk[Head(puts).path].bytes, config |-> cfg])
                      ELSE None],
                  Tail(puts), dsk, cfg)

\* one run of load_source_files_with_cache with the FileCache of the run
LoadRun(file_list, failing) ==
    /\ cache_ret' = [op |-> "load", file_list |-> file_list,
                     value |-> load_source_files_with_cache(file_list, config, Some(cache),
                                                            cache_files, disk, failing)]
    /\ cache_files' = cache_ret'.value.cache_files
    /\ put_log' = log_puts(put_log, cache_ret'.value.puts, disk, config)
    /\ UNCHANGED <<main_vars, config, pair_vars, aux_vars, run_vars, disk, cache>>

LoadNext ==
    \/ \E file_list \in SeqUpTo(LoadPaths, MaxFileList) :
          \E failing \in {{}} \cup {{sp} : sp \in LoadPaths} : LoadRun(file_list, failing)
    \/ \E path \in LoadPaths : \E bytes \in LoadContents(path) : EditSource(path, bytes)
    \/ \E cfg \in LoadConfigs : Reconfigure(cfg)
    \/ ClearCache
    \/ \E path \in LoadPaths : OtherVersionPut(path)

SpecLoad == LoadInit /\ [][LoadNext]_vars

(***************************************************************************)
(* Claims about the loader                                                 *)
(***************************************************************************)
LoadReturned == cache_ret.op = "load"

\* C11: whatever runs, edits of source files and changes of min_chars came
\* before, the SourceFiles a run with the cache loads (paths, order, line
\* texts, line numbers, hashes) are those a run without cache loads from the
\* same file list, files and configuration.
C11_CacheTransparency ==
    LoadReturned =>
        cache_ret.value.source_files
           = load_source_files(cache_ret.file_list, config, disk).source_files

\* a run with min_chars 5 that takes one file from the cache and cleans and
\* caches the other
C11_Witness ==
    /\ LoadReturned
    /\ config.min_chars = 5
    /\ cache_ret.value.cache_hits = 1
    /\ Len(cache_ret.value.puts) = 1
    /\ Len(cache_ret.value.source_files) = 2


(***************************************************************************)
(* The baseline (baseline/storage.rs).  A path is a sequence of bytes, a   *)
(* content hash is the hasher's value over the block's line hashes.        *)
(***************************************************************************)
BASELINE_VERSION == 1

\* String's <= : the bytewise lexicographic order
RECURSIVE path_le(_, _)
path_le(a, b) ==
    IF a = <<>>
    THEN TRUE
    ELSE IF b = <<>>
         THEN FALSE
         ELSE IF Head(a) = Head(b) THEN path_le(Tail(a), Tail(b)) ELSE Head(a) < Head(b)

\* an entry that keeps the two paths in the order given
BaselineEntry_new_mutant(file1, file2, content_hash, line_count) ==
    [file1 |-> file1, file2 |-> file2,
     content_hash |-> content_hash, line_count |-> line_count]

\* BaselineEntry::new: the two paths stored in sorted order
BaselineEntry_new(file1, file2, content_hash, line_count) ==
    IF path_le(file1, file2)
    THEN [file1 |-> file1, file2 |-> file2,
          content_hash |-> content_hash, line_count |-> line_count]
    ELSE [file1 |-> file2, file2 |-> file1,
          content_hash |-> content_hash, line_count |-> line_count]

\* compute_block_hash: the hasher fed with the hashes of source1's lines
\* line1 .. line1 + count - 1
compute_block_hash(block, files) ==
    LET first == files[block.source1_idx + 1]
    IN default_hash([k \in 1..block.count |-> first.lines[block.line1 + k]])

\* a baseline that lists the blocks last to first
Baseline_from_results_mutant(res, files, config_hash) ==
    [version |-> BASELINE_VERSION,
     config_hash |-> config_hash,
     entries |-> [k \in 1..Len(res.blocks) |->
                    LET block == res.blocks[Len(res.blocks) + 1 - k]
                    IN BaselineEntry_new(files[block.source1_idx + 1].filename,
                                         files[block.source2_idx + 1].filename,
                                         compute_block_hash(block, files),
                                         block.count)]]

\* Baseline::from_results
Baseline_from_results(res, files, config_hash) ==
    [version |-> BASELINE_VERSION,
     config_hash |-> config_hash,
     entries |-> [k \in 1..Len(res.blocks) |->
                    BaselineEntry_new(files[res.blocks[k].source1_idx + 1].filename,
                                      files[res.blocks[k].source2_idx + 1].filename,
                                      compute_block_hash(res.blocks[k], files),
                                      res.blocks[k].count)]]

\* the comparison Baseline::contains makes with one entry, the block's two
\* paths given in sorted order
entry_matches_mutant(entry, f1, f2, content_hash) ==
    entry.content_hash = content_hash

entry_matches(entry, f1, f2, content_hash) ==
    entry.file1 = f1 /\ entry.file2 = f2 /\ entry.content_hash = content_hash

\* Baseline::contains
Baseline_contains(bl, block, files) ==
    LET file1 == files[block.source1_idx + 1].filename
        file2 == files[block.source2_idx + 1].filename
        f1 == IF path_le(file1, file2) THEN file1 ELSE file2
        f2 == IF path_le(file1, file2) THEN file2 ELSE file1
        content_hash == compute_block_hash(block, files)
    IN \E k \in 1..Len(bl.entries) : entry_matches(bl.entries[k], f1, f2, content_hash)

\* Baseline::filter_new_duplicates
filter_new_duplicates(bl, res, files) ==
    LET is_new(block) == ~Baseline_contains(bl, block, files)
    IN DuploResult(SelectSeq(res.blocks, is_new), res.files_analyzed, res.total_lines)

\* serde_json::to_writer_pretty of a Baseline: numbers as decimal digits,
\* strings escaped
serialize_baseline(bl) ==
    Written([version |-> to_digits(bl.version),
             config_hash |-> to_digits(bl.config_hash),
             entries |-> [k \in 1..Len(bl.entries) |->
                            [file1 |-> json_escape(bl.entries[k].file1),
                             file2 |-> json_escape(bl.entries[k].file2),
                             content_hash |-> to_digits(bl.entries[k].content_hash),
                             line_count |-> to_digits(bl.entries[k].line_count)]]])

\* serde_json::from_reader of a Baseline: the fields as the file gives them
deserialize_baseline(file) ==
    [version |-> from_digits(file.json.version),
     config_hash |-> from_digits(file.json.config_hash),
     entries |-> [k \in 1..Len(file.json.entries) |->
                    [file1 |-> json_unescape(file.json.entries[k].file1),
                     file2 |-> json_unescape(file.json.entries[k].file2),
                     content_hash |-> from_digits(file.json.entries[k].content_hash),
                     line_count |-> from_digits(file.json.entries[k].line_count)]]]

BaselineError == [kind |-> "BaselineError"]
BaselineVersionMismatch(found, expected) ==
    [kind |-> "BaselineVersionMismatch", found |-> found, expected |-> expected]

\* save_baseline: fails when the file cannot be created or written, and a
\* failed write leaves a file cut short
save_baseline(bl, old_file, failure) ==
    IF failure = "create"
    THEN [ok |-> FALSE, error |-> BaselineError, file |-> old_file]
    ELSE IF failure = "write"
         THEN [ok |-> FALSE, error |-> BaselineError, file |-> Truncated]
         ELSE [ok |-> TRUE, file |-> serialize_baseline(bl)]

\* a load that accepts every format version
load_baseline_mutant(file) ==
    IF ~file.present \/ ~file.whole
    THEN [ok |-> FALSE, error |-> BaselineError]
    ELSE [ok |-> TRUE, value |-> deserialize_baseline(file)]

\* load_baseline
load_baseline(file) ==
    IF ~file.present
    THEN [ok |-> FALSE, error |-> BaselineError]
    ELSE IF ~file.whole
         THEN [ok |-> FALSE, error |-> BaselineError]
         ELSE LET bl == deserialize_baseline(file)
              IN IF bl.version # BASELINE_VERSION
                 THEN [ok |-> FALSE,
                       error |-> BaselineVersionMismatch(bl.version, BASELINE_VERSION)]
                 ELSE [ok |-> TRUE, value |-> bl]

\* Config::detection_config_hash: the fields that affect detection
detection_config_hash(cfg) ==
    default_hash(<<cfg.min_chars, cfg.min_block_size, cfg.block_percent_threshold,
                   IF cfg.ignore_same_filename THEN 1 ELSE 0>>)


(***************************************************************************)
(* SpecBaseline: the baseline calls on a small corpus.  A result, either   *)
(* the detection's or any vector of well-formed blocks, is turned into a   *)
(* baseline, or a baseline is built entry by entry, or a baseline file     *)
(* written elsewhere is found; a saved or found file is loaded by a later  *)
(* process; the result is filtered.                                        *)
(***************************************************************************)
MaxResultBlocks == 2   \* most blocks of a hand-built result

\* "a.c" and "b\c"
BaselinePaths == {<<97, 46, 99>>, <<98, 92, 99>>}

BaselineCorpora ==
    {<<SourceFile_new(p, c), SourceFile_new(q, <<1, 2>>)>> :
        p \in BaselinePaths, q \in BaselinePaths, c \in {<<1, 1>>, <<1, 2>>}}
    \ {files \in [1..2 -> [filename : BaselinePaths, lines : {<<1, 1>>, <<1, 2>>}]] :
          files[1].filename = files[2].filename}

\* the blocks that lie inside the files, one per first-file position
BaselineBlocks(files) ==
    {Block_new(i, j, l1, num_lines(files[j + 1]) - n - l1, n) :
        i \in 0..(Len(files) - 1), j \in 0..(Len(files) - 1), l1 \in 0..1, n \in 1..2}
    \cap {b \in [source1_idx : 0..1, source2_idx : 0..1, line1 : 0..1, line2 : 0..1,
                 count : 1..2] :
            /\ b.source1_idx <= b.source2_idx
            /\ b.line1 + b.count <= num_lines(files[b.source1_idx + 1])
            /\ b.line2 + b.count <= num_lines(files[b.source2_idx + 1])}

BaselineConfig == Config(DefaultMinChars, 1, 100, 0, 1, FALSE)

\* process_files_with_cache on loaded files: the early return of an empty
\* vector gives the same all-zero result
detected_result(files, cfg) ==
    DuploResult(detect_blocks(files, cfg), effective_files_to_check(cfg, Len(files)),
                SumLines(files))

BaselineResults(files) ==
    {DuploResult(blocks, Len(files), SumLines(files)) :
        blocks \in SeqUpTo(BaselineBlocks(files), MaxResultBlocks)}
    \cup {detected_result(files, BaselineConfig)}

\* the entries of a baseline built or written by hand
BaselineEntryArgs ==
    [file1 : BaselinePaths, file2 : BaselinePaths,
     content_hash : {default_hash(<<1>>), default_hash(<<1, 2>>)}, line_count : {1, 2}]

BaselineInit ==
    /\ config = BaselineConfig
    /\ source_files \in BaselineCorpora
    /\ result \in BaselineResults(source_files)
    /\ max_lines = longest(source_files)
    /\ hash_index = <<>>
    /\ files_to_check = 0
    /\ task_state = <<>>
    /\ results = <<>>
    /\ finished = <<>>
    /\ run_pc = "done"
    /\ baseline_file = Absent
    /\ baseline = None
    /\ baseline_ret = [op |-> "init"]
    /\ PairIdle
    /\ CacheIdle
    /\ AuxIdle
    /\ ProcessIdle

\* Baseline::from_results on the result
FromResults ==
    /\ baseline_ret.op = "init"
    /\ baseline' = Some(Baseline_from_results(result, source_files,
                                              detection_config_hash(config)))
    /\ baseline_ret' = [op |-> "from_results", origin |-> "from_results"]
    /\ UNCHANGED <<config, pair_vars, aux_vars, run_vars, cache_vars, process_vars, baseline_file>>

\* a baseline of one entry built with BaselineEntry::new
NewEntry(e) ==
    /\ baseline_ret.op = "init"
    /\ baseline' = Some([version |-> BASELINE_VERSION,
                         config_hash |-> detection_config_hash(config),
                         entries |-> <<BaselineEntry_new(e.file1, e.file2, e.content_hash,
                                                         e.line_count)>>])
    /\ baseline_ret' = [op |-> "new", origin |-> "new", args |-> e]
    /\ UNCHANGED <<config, pair_vars, aux_vars, run_vars, cache_vars, process_vars, baseline_file>>

\* a baseline file of one entry that another tool, version or hand wrote
WriteBaselineFile(e, version) ==
    /\ baseline_ret.op = "init"
    /\ baseline_file' = serialize_baseline([version |-> version,
                                            config_hash |-> detection_config_hash(config),
                                            entries |-> <<e>>])
    /\ baseline_ret' = [op |-> "write", origin |-> "write", args |-> e]
    /\ UNCHANGED <<config, pair_vars, aux_vars, run_vars, cache_vars, process_vars, baseline>>

\* save_baseline, after which the process ends
SaveBaseline(failure) ==
    /\ baseline_ret.op \in {"from_results", "new"}
    /\ baseline_ret' = [baseline_ret EXCEPT !.op = "save"]
    /\ baseline_file' = save_baseline(baseline.value, baseline_file, failure).file
    /\ baseline' = None
    /\ UNCHANGED <<config, pair_vars, aux_vars, run_vars, cache_vars, process_vars>>

\* load_baseline in a later process
LoadBaseline ==
    /\ baseline_ret.op \in {"save", "write"}
    /\ baseline_ret' = [baseline_ret EXCEPT !.op = "load"]
    /\ baseline' = IF load_baseline(baseline_file).ok
                   THEN Some(load_baseline(baseline_file).value)
                   ELSE None
    /\ UNCHANGED <<config, pair_vars, aux_vars, run_vars, cache_vars, process_vars, baseline_file>>

\* Baseline::filter_new_duplicates on the result
FilterNewDuplicates ==
    /\ baseline_ret.op \in {"from_results", "new", "load"}
    /\ baseline.some
    /\ result' = filter_new_duplicates(baseline.value, result, source_files)
    /\ baseline_ret' = [op |-> "filter", origin |-> baseline_ret.origin,
                        loaded |-> baseline_ret.op = "load", before |-> result]
    /\ UNCHANGED <<config, pair_vars, aux_vars, cache_vars, source_files, max_lines, hash_index,
                   files_to_check, task_state, results, finished, run_pc,
                   baseline_file, baseline, process_vars>>

BaselineNext ==
    \/ FromResults
    \/ \E e \in BaselineEntryArgs : NewEntry(e)
    \/ \E e \in BaselineEntryArgs, version \in {BASELINE_VERSION, BASELINE_VERSION + 1} :
           WriteBaselineFile(e, version)
    \/ \E failure \in {"none", "create", "write"} : SaveBaseline(failure)
    \/ LoadBaseline
    \/ FilterNewDuplicates

SpecBaseline == BaselineInit /\ [][BaselineNext]_vars

(***************************************************************************)
(* Claims about the baseline (SpecBaseline)                                *)
(***************************************************************************)
Filtered == baseline_ret.op = "filter"

\* an exit status that tells duplicates only from the second duplicated line on
exit_status_mutant(res) == IF res.duplicate_lines > 1 THEN 1 ELSE 0

\* the exit status main gives a run that reached its end with this result
exit_status(res) == IF res.duplicate_blocks > 0 THEN 1 ELSE 0

\* C12: the baseline built from a result by from_results, used at once or
\* after save_baseline and load_baseline, filters that result to zero
\* blocks, so the run that filtered it ends with exit status 0
C12_BaselineMonotonicity ==
    (Filtered /\ baseline_ret.origin = "from_results") =>
        /\ result.blocks = <<>>
        /\ result.duplicate_blocks = 0
        /\ exit_status(result) = 0

C12_Witness ==
    /\ Filtered
    /\ baseline_ret.origin = "from_results"
    /\ baseline_ret.loaded
    /\ baseline_ret.before = detected_result(source_files, config)
    /\ Len(baseline_ret.before.blocks) >= 2
    /\ result.blocks = <<>>


\* the fingerprint components of a block: its two paths in sorted order and
\* the hash of the line hashes it covers in its first file
SortedPaths(block, files) ==
    LET p1 == files[block.source1_idx + 1].filename
        p2 == files[block.source2_idx + 1].filename
    IN CHOOSE pair \in {<<p1, p2>>, <<p2, p1>>} : path_le(pair[1], pair[2])

BlockHash(block, files) ==
    default_hash(SubSeq(files[block.source1_idx + 1].lines,
                        block.line1 + 1, block.line1 + block.count))

\* some entry equals the block's fingerprint in path pair, hash and length
KnownByAllThree(bl, block, files) ==
    \E k \in 1..Len(bl.entries) :
        /\ <<bl.entries[k].file1, bl.entries[k].file2>> = SortedPaths(block, files)
        /\ bl.entries[k].content_hash = BlockHash(block, files)
        /\ bl.entries[k].line_count = block.count

\* some entry equals the block's fingerprint in path pair and hash
KnownByPairAndHash(bl, block, files) ==
    \E k \in 1..Len(bl.entries) :
        /\ <<bl.entries[k].file1, bl.entries[k].file2>> = SortedPaths(block, files)
        /\ bl.entries[k].content_hash = BlockHash(block, files)

OneEntryBaseline(entry) ==
    [version |-> BASELINE_VERSION,
     config_hash |-> detection_config_hash(config),
     entries |-> <<entry>>]

SwapFiles(e) == [e EXCEPT !.file1 = e.file2, !.file2 = e.file1]

SwapBlock(b) == Block_new(b.source2_idx, b.source1_idx, b.line2, b.line1, b.count)

SameMembership(bl1, bl2) ==
    \A block \in BaselineBlocks(source_files) :
        Baseline_contains(bl1, block, source_files)
            = Baseline_contains(bl2, block, source_files)

\* an entry built with BaselineEntry::new from the paths in either order
BuiltEntryOrderFree ==
    baseline_ret.op = "new" =>
        SameMembership(baseline.value,
                       OneEntryBaseline(BaselineEntry_new(baseline_ret.args.file2,
                                                          baseline_ret.args.file1,
                                                          baseline_ret.args.content_hash,
                                                          baseline_ret.args.line_count)))

\* an entry read by load_baseline from a file that has the paths in either order
LoadedEntryOrderFree ==
    (baseline_ret.op = "load" /\ baseline_ret.origin = "write" /\ baseline.some) =>
        SameMembership(baseline.value,
                       load_baseline(serialize_baseline(
                           OneEntryBaseline(SwapFiles(baseline_ret.args)))).value)

\* a detected block with its two files exchanged
BlockOrderFree ==
    baseline.some =>
        \A k \in 1..Len(detect_blocks(source_files, config)) :
            LET block == detect_blocks(source_files, config)[k]
            IN Baseline_contains(baseline.value, block, source_files)
                   = Baseline_contains(baseline.value, SwapBlock(block), source_files)

\* C15: exchanging file1 and file2 in an entry, built with BaselineEntry::new
\* or read by load_baseline, does not change which blocks the baseline
\* contains, and neither does exchanging the two files of a block
C15_PathOrderInvariance ==
    /\ BuiltEntryOrderFree
    /\ LoadedEntryOrderFree
    /\ BlockOrderFree


(***************************************************************************)
(* main (main.rs), phase by phase.  Each option of the command line is     *)
(* read in one phase only and is an input of that phase's action, as is    *)
(* the failure the environment answers an operation with.  The corpus is   *)
(* the source files as the loader delivers them.                           *)
(***************************************************************************)
MainMaxFiles == 2  \* most files of a corpus before a duplicate is added
MainMaxLen == 2    \* most cleaned lines of such a file

MainHashValues == {1, 2}
MainContents == SeqUpTo(MainHashValues, MainMaxLen) \ {<<>>}

\* the k-th file of a corpus is named "a", "b", ...
MainPath(k) == <<96 + k>>

MainCorpora ==
    UNION {{[k \in 1..f |-> SourceFile_new(MainPath(k), c[k])] :
               c \in [1..f -> MainContents]} : f \in 0..MainMaxFiles}

MainConfigs == {Config(DefaultMinChars, b, 100, 0, 1, FALSE) : b \in {1, 2}}

\* a baseline file of another format version
OtherVersionBaseline ==
    serialize_baseline([version |-> BASELINE_VERSION + 1,
                        config_hash |-> 0,
                        entries |-> <<>>])

\* the baseline file an earlier run with --save-baseline and the
\* configuration cfg wrote for the corpus
EarlierBaseline(files, cfg) ==
    serialize_baseline(Baseline_from_results(detected_result(files, cfg), files,
                                             detection_config_hash(cfg)))

Warning(what) == [level |-> "warning", what |-> what]
Error(what) == [level |-> "error", what |-> what]

\* a changed-only filter that keeps the summary counters of its input
filter_to_changed_files_mutant(res, files, changed) ==
    LET touches(block) ==
            \/ files[block.source1_idx + 1].filename \in changed
            \/ files[block.source2_idx + 1].filename \in changed
    IN [res EXCEPT !.blocks = SelectSeq(res.blocks, touches)]

\* filter_to_changed_files
filter_to_changed_files(res, files, changed) ==
    LET touches(block) ==
            \/ files[block.source1_idx + 1].filename \in changed
            \/ files[block.source2_idx + 1].filename \in changed
    IN DuploResult(SelectSeq(res.blocks, touches), res.files_analyzed, res.total_lines)

\* the corpus after the line hash h is appended at two places: to the files
\* i and j, a file index past the end standing for a new file
RECURSIVE AppendLine(_, _, _)
AppendLine(files, i, h) ==
    IF i > Len(files)
    THEN Append(files, SourceFile_new(MainPath(i), <<h>>))
    ELSE [files EXCEPT ![i].lines = Append(@, h)]

main_unused == <<pair_vars, aux_vars, cache_vars, max_lines, hash_index, files_to_check, task_state,
                 results, finished, run_pc>>

MainInit ==
    /\ config \in MainConfigs
    /\ corpus \in MainCorpora
    /\ baseline_file \in {Absent, Truncated, OtherVersionBaseline}
                         \cup {EarlierBaseline(corpus, cfg) : cfg \in MainConfigs}
    /\ baseline = None
    /\ baseline_ret = None
    /\ baseline_origin = None
    /\ source_files = <<>>
    /\ result = NoResult
    /\ main_pc = "config"
    /\ exit_code = None
    /\ stderr = {}
    /\ stdout = None
    /\ changed_files = None
    /\ runs = 1
    /\ max_lines = 0
    /\ hash_index = <<>>
    /\ files_to_check = 0
    /\ task_state = <<>>
    /\ results = <<>>
    /\ finished = <<>>
    /\ run_pc = "idle"
    /\ PairIdle
    /\ CacheIdle
    /\ AuxIdle

\* return ExitCode::from(2) after an error message
ExitWithError(what) ==
    /\ stderr' = stderr \cup {Error(what)}
    /\ exit_code' = Some(2)
    /\ main_pc' = "exited"

\* cli.into_config()
ParseConfig(valid) ==
    /\ main_pc = "config"
    /\ IF valid
       THEN /\ main_pc' = "clear_cache"
            /\ UNCHANGED <<stderr, exit_code>>
       ELSE ExitWithError("config")
    /\ UNCHANGED <<config, source_files, result, baseline_file, baseline, baseline_ret,
                   corpus, stdout, changed_files, runs, baseline_origin, main_unused>>

\* phase 0: --clear-cache
ClearCachePhase(clear_cache, fails) ==
    /\ main_pc = "clear_cache"
    /\ main_pc' = "discovery"
    /\ stderr' = IF clear_cache /\ fails
                 THEN stderr \cup {Warning("Failed to clear cache")}
                 ELSE stderr
    /\ UNCHANGED <<config, source_files, result, baseline_file, baseline, baseline_ret,
                   corpus, exit_code, stdout, changed_files, runs, baseline_origin,
                   main_unused>>

\* phase 1: file discovery; source is "git", "list" or "none", changed is the
\* changed set of --changed-only
FileDiscovery(source, fails, changed) ==
    /\ main_pc = "discovery"
    /\ source = "none" => fails
    /\ (source # "git" \/ fails) => changed = None
    /\ IF fails
       THEN /\ ExitWithError(source)
            /\ UNCHANGED changed_files
       ELSE /\ main_pc' = "cache_setup"
            /\ changed_files' = changed
            /\ UNCHANGED <<stderr, exit_code>>
    /\ UNCHANGED <<config, source_files, result, baseline_file, baseline, baseline_ret,
                   corpus, stdout, runs, baseline_origin, main_unused>>

\* phase 1.5: FileCache::new when the cache is enabled
CacheSetup(cache_enabled, fails) ==
    /\ main_pc = "cache_setup"
    /\ main_pc' = "process"
    /\ stderr' = IF cache_enabled /\ fails
                 THEN stderr \cup {Warning("Failed to initialize cache")}
                 ELSE stderr
    /\ UNCHANGED <<config, source_files, result, baseline_file, baseline, baseline_ret,
                   corpus, exit_code, stdout, changed_files, runs, baseline_origin,
                   main_unused>>

\* phase 2: process_files_with_cache; failure is "none", "FileTooLarge" (the
\* loader's matrix limit) or "Other" (the thread pool could not be built)
ProcessFiles(failure) ==
    /\ main_pc = "process"
    /\ corpus = <<>> => failure = "none"
    /\ IF failure # "none"
       THEN /\ ExitWithError(failure)
            /\ UNCHANGED <<source_files, result>>
       ELSE /\ main_pc' = "changed_filter"
            /\ source_files' = corpus
            /\ result' = detected_result(corpus, config)
            /\ UNCHANGED <<stderr, exit_code>>
    /\ UNCHANGED <<config, baseline_file, baseline, baseline_ret, corpus, stdout,
                   changed_files, runs, baseline_origin, main_unused>>

\* phase 3: the --changed-only filter
ChangedFilter ==
    /\ main_pc = "changed_filter"
    /\ main_pc' = "baseline_load"
    /\ result' = IF changed_files.some
                 THEN filter_to_changed_files(result, source_files, changed_files.value)
                 ELSE result
    /\ UNCHANGED <<config, source_files, baseline_file, baseline, baseline_ret, corpus,
                   exit_code, stderr, stdout, changed_files, runs, baseline_origin,
                   main_unused>>

\* phase 3.5, first half: load_baseline when --baseline is given
BaselineLoad(baseline_path) ==
    /\ main_pc = "baseline_load"
    /\ IF ~baseline_path
       THEN /\ main_pc' = "baseline_filter"
            /\ UNCHANGED <<baseline, baseline_ret, stderr, exit_code>>
       ELSE /\ baseline_ret' = load_baseline(baseline_file)
            /\ IF baseline_ret'.ok
               THEN /\ baseline' = Some(baseline_ret'.value)
                    /\ main_pc' = "baseline_filter"
                    /\ stderr' = IF baseline_ret'.value.config_hash
                                       # detection_config_hash(config)
                                 THEN stderr \cup {Warning("different detection settings")}
                                 ELSE stderr
                    /\ UNCHANGED exit_code
               ELSE /\ ExitWithError(baseline_ret'.error.kind)
                    /\ UNCHANGED baseline
    /\ UNCHANGED <<config, source_files, result, baseline_file, corpus, stdout,
                   changed_files, runs, baseline_origin, main_unused>>

\* phase 3.5, second half: filter_new_duplicates when a baseline was loaded
BaselineFilter ==
    /\ main_pc = "baseline_filter"
    /\ main_pc' = "export"
    /\ result' = IF baseline.some
                 THEN filter_new_duplicates(baseline.value, result, source_files)
                 ELSE result
    /\ UNCHANGED <<config, source_files, baseline_file, baseline, baseline_ret, corpus,
                   exit_code, stderr, stdout, changed_files, runs, baseline_origin,
                   main_unused>>

\* phase 4: get_output_writer, export, flush; failure is "none" or the
\* operation that fails
ExportResults(failure) ==
    /\ main_pc = "export"
    /\ IF failure # "none"
       THEN /\ ExitWithError(failure)
            /\ UNCHANGED stdout
       ELSE /\ main_pc' = "save_baseline"
            /\ stdout' = Some(result)
            /\ UNCHANGED <<stderr, exit_code>>
    /\ UNCHANGED <<config, source_files, result, baseline_file, baseline, baseline_ret,
                   corpus, changed_files, runs, baseline_origin, main_unused>>

\* phase 4.5: from_results and save_baseline when --save-baseline is given
SaveBaselinePhase(save_baseline_path, failure) ==
    /\ main_pc = "save_baseline"
    /\ ~save_baseline_path => failure = "none"
    /\ IF ~save_baseline_path
       THEN /\ main_pc' = "exit"
            /\ UNCHANGED <<baseline_file, baseline_origin, stderr, exit_code>>
       ELSE /\ baseline_file' =
                   save_baseline(Baseline_from_results(result, source_files,
                                                       detection_config_hash(config)),
                                 baseline_file, failure).file
            /\ IF failure = "none"
               THEN /\ main_pc' = "exit"
                    /\ baseline_origin' = Some([corpus |-> corpus, config |-> config,
                                                filtered |-> changed_files.some
                                                             \/ baseline.some])
                    /\ UNCHANGED <<stderr, exit_code>>
               ELSE /\ ExitWithError("save_baseline")
                    /\ baseline_origin' = IF failure = "write" THEN None
                                          ELSE baseline_origin
    /\ UNCHANGED <<config, source_files, result, baseline, baseline_ret, corpus, stdout,
                   changed_files, runs, main_unused>>

\* phase 5: the exit code
ExitPhase ==
    /\ main_pc = "exit"
    /\ main_pc' = "exited"
    /\ exit_code' = Some(exit_status(result))
    /\ UNCHANGED <<config, source_files, result, baseline_file, baseline, baseline_ret,
                   corpus, stderr, stdout, changed_files, runs, baseline_origin,
                   main_unused>>

MainNext ==
    \/ \E valid \in BOOLEAN : ParseConfig(valid)
    \/ \E clear_cache \in BOOLEAN, fails \in BOOLEAN : ClearCachePhase(clear_cache, fails)
    \/ \E source \in {"git", "list", "none"}, fails \in BOOLEAN,
          changed \in {None, Some({}), Some({MainPath(1)})} :
           FileDiscovery(source, fails, changed)
    \/ \E cache_enabled \in BOOLEAN, fails \in BOOLEAN : CacheSetup(cache_enabled, fails)
    \/ \E failure \in {"none", "FileTooLarge", "Other"} : ProcessFiles(failure)
    \/ ChangedFilter
    \/ \E baseline_path \in BOOLEAN : BaselineLoad(baseline_path)
    \/ BaselineFilter
    \/ \E failure \in {"none", "get_output_writer", "export", "flush"} :
           ExportResults(failure)
    \/ \E save_baseline_path \in BOOLEAN, failure \in {"none", "create", "write"} :
           SaveBaselinePhase(save_baseline_path, failure)
    \/ ExitPhase

SpecMain == MainInit /\ [][MainNext]_vars


(***************************************************************************)
(* SpecRerun: a run with --save-baseline, then runs with --baseline and    *)
(* the same configuration, the corpus unchanged or with one line added at  *)
(* two places in between.  No operation of the environment fails.          *)
(***************************************************************************)
MaxRuns == 2       \* runs of the program in one behaviour

RerunInit ==
    /\ MainInit
    /\ baseline_file = Absent

\* the program is started again, with the configuration cfg, after a run
\* that saved a baseline
NextRun(cfg) ==
    /\ main_pc = "exited"
    /\ runs < MaxRuns
    /\ baseline_origin.some
    /\ exit_code # Some(2)
    /\ runs' = runs + 1
    /\ config' = cfg
    /\ main_pc' = "config"
    /\ source_files' = <<>>
    /\ result' = NoResult
    /\ baseline' = None
    /\ baseline_ret' = None
    /\ exit_code' = None
    /\ stderr' = {}
    /\ stdout' = None
    /\ changed_files' = None
    /\ UNCHANGED <<corpus, baseline_file, baseline_origin, main_unused>>

\* between two runs the line hash h is added at the end of the files i and j
\* of the corpus a baseline has been saved for
AddDuplicate(h, i, j) ==
    /\ main_pc = "config"
    /\ baseline_origin.some
    /\ corpus = baseline_origin.value.corpus
    /\ i <= Len(corpus) + 1
    /\ j <= Len(corpus) + 1
    /\ i <= j
    /\ i = j => i <= Len(corpus)
    /\ corpus' = AppendLine(AppendLine(corpus, i, h), j, h)
    /\ UNCHANGED <<config, source_files, result, baseline_file, baseline, baseline_ret,
                   main_pc, exit_code, stderr, stdout, changed_files, runs,
                   baseline_origin, main_unused>>

RerunNext ==
    \/ ParseConfig(TRUE)
    \/ ClearCachePhase(FALSE, FALSE)
    \/ FileDiscovery("list", FALSE, None)
    \/ CacheSetup(FALSE, FALSE)
    \/ ProcessFiles("none")
    \/ ChangedFilter
    \/ BaselineLoad(runs > 1)
    \/ BaselineFilter
    \/ ExportResults("none")
    \/ SaveBaselinePhase(runs = 1, "none")
    \/ ExitPhase
    \/ NextRun(config)
    \/ \E h \in MainHashValues \cup {3}, i \in 1..(MainMaxFiles + 1),
          j \in 1..(MainMaxFiles + 1) : AddDuplicate(h, i, j)

SpecRerun == RerunInit /\ [][RerunNext]_vars


(***************************************************************************)
(* Claims about a rerun against a saved baseline (SpecRerun)               *)
(***************************************************************************)
\* the duplicated pairs of a corpus: the maximal runs of at least the
\* effective minimum of hash-equal lines, as <<i, j, line1, line2, count>>
DuplicatedPairs(files, cfg) ==
    {t \in (0..(Len(files) - 1)) \X (0..(Len(files) - 1)) \X (0..(MainMaxLen + 2))
           \X (0..(MainMaxLen + 2)) \X (1..(MainMaxLen + 2)) :
        /\ t[1] <= t[2]
        /\ MaximalRun(files[t[1] + 1].lines, files[t[2] + 1].lines, t[3], t[4], t[5])
        /\ t[5] >= calc_min_block_size(cfg, num_lines(files[t[1] + 1]),
                                       num_lines(files[t[2] + 1]))
        /\ t[1] = t[2] => t[3] > t[4]}

NewPairs == DuplicatedPairs(corpus, config)
                \ DuplicatedPairs(baseline_origin.value.corpus, config)

\* a run with the baseline of the unfiltered earlier run has exited, and the
\* corpus is the earlier one with exactly one duplicated pair more
OneNewPair ==
    /\ main_pc = "exited"
    /\ runs > 1
    /\ baseline.some
    /\ baseline_origin.value.config = config
    /\ ~baseline_origin.value.filtered
    /\ DuplicatedPairs(baseline_origin.value.corpus, config)
           \subseteq DuplicatedPairs(corpus, config)
    /\ Cardinality(NewPairs) = 1

BlockTuple(b) == <<b.source1_idx, b.source2_idx, b.line1, b.line2, b.count>>

\* C13: after a baseline has been saved for a corpus and one new duplicated
\* pair has been introduced, the rerun with that baseline and the same
\* configuration reports exactly one block, the new pair, and exits with 1
C13_NewDuplicateReported ==
    OneNewPair =>
        /\ Len(result.blocks) = 1
        /\ BlockTuple(result.blocks[1]) \in NewPairs
        /\ stdout = Some(result)
        /\ exit_code = Some(1)

\* the same without the block's positions: one block, between the new pair's
\* files and of its length
C13_OneBlockOfNewPair ==
    OneNewPair =>
        /\ Len(result.blocks) = 1
        /\ \E t \in NewPairs :
              /\ t[1] = result.blocks[1].source1_idx
              /\ t[2] = result.blocks[1].source2_idx
              /\ t[5] = result.blocks[1].count
        /\ exit_code = Some(1)


(***************************************************************************)
(* Claims about one run of main (SpecMain)                                 *)
(***************************************************************************)
\* load_baseline has returned and the baseline file is still the one it read
BaselineLoadReturned ==
    /\ baseline_ret # None
    /\ main_pc \in {"baseline_filter", "export", "save_baseline", "exited"}
    /\ main_pc = "exited" => Error("save_baseline") \notin stderr

FileVersion == from_digits(baseline_file.json.version)
FileConfigHash == from_digits(baseline_file.json.config_hash)

DriftWarning == Warning("different detection settings")

\* a baseline file of another format version: a version-mismatch error, which
\* is not the error of a file that does not parse, exit code 2, nothing exported
VersionMismatchFatal ==
    (BaselineLoadReturned /\ baseline_file.present) =>
        IF ~baseline_file.whole
        THEN /\ ~baseline_ret.ok
             /\ baseline_ret.error.kind = "BaselineError"
        ELSE FileVersion # BASELINE_VERSION =>
                /\ ~baseline_ret.ok
                /\ baseline_ret.error.kind = "BaselineVersionMismatch"
                /\ baseline_ret.error.kind # BaselineError.kind
                /\ baseline_ret.error.found = FileVersion
                /\ main_pc = "exited"
                /\ exit_code = Some(2)
                /\ stdout = None

\* a baseline file of the current version with another detection-config hash:
\* a warning and no error, the baseline loaded as the file gives it, and no
\* block the baseline knows left in the result once the filter phase is over
DriftOnlyWarns ==
    (/\ BaselineLoadReturned
     /\ baseline_file.present
     /\ baseline_file.whole
     /\ FileVersion = BASELINE_VERSION
     /\ FileConfigHash # detection_config_hash(config)) =>
        /\ baseline_ret.ok
        /\ baseline = Some(deserialize_baseline(baseline_file))
        /\ DriftWarning \in stderr
        /\ \A e \in stderr : e.level = "error" => e.what \in {"get_output_writer", "export",
                                                              "flush"}
        /\ main_pc # "baseline_filter" =>
              \A k \in 1..Len(result.blocks) :
                  ~KnownByPairAndHash(baseline.value, result.blocks[k], source_files)

\* C16: a baseline file of another format version fails to load with a
\* version-mismatch error distinct from the parse error and the run exits
\* with 2 without exporting; a baseline with another detection-config hash
\* only draws a warning, is loaded, and the filter is applied
C16_BaselineLoadOutcomes ==
    /\ VersionMismatchFatal
    /\ DriftOnlyWarns

C16_Witness ==
    /\ main_pc = "exited"
    /\ exit_code = Some(1)
    /\ DriftWarning \in stderr
    /\ baseline.some
    /\ Len(baseline.value.entries) > 0
    /\ Len(result.blocks) < Len(detect_blocks(corpus, config))
    /\ stdout = Some(result)


Exited == main_pc = "exited"

ErrorsWritten == {e.what : e \in {w \in stderr : w.level = "error"}}

\* the errors the statement lists: configuration, discovery, file list,
\* loading (file too large), baseline load, output, baseline save
ListedErrors ==
    {"config", "git", "list", "none", "FileTooLarge", "BaselineError",
     "BaselineVersionMismatch", "get_output_writer", "export", "flush", "save_baseline"}

ExitCodeFor(fatal) ==
    Exited =>
        /\ exit_code = Some(2) <=> ErrorsWritten \cap fatal # {}
        /\ ErrorsWritten \cap fatal = {} =>
              /\ exit_code \in {Some(0), Some(1)}
              /\ exit_code = Some(0) <=> result.blocks = <<>>
              /\ exit_code = Some(1) <=> result.blocks # <<>>
              /\ stdout = Some(result)

CoveredLines(blocks) ==
    {<<k, t>> \in (1..Len(blocks)) \X (1..(MainMaxLen + 2)) : t <= blocks[k].count}

AggregatesAgree(res) ==
    /\ res.duplicate_blocks = Len(res.blocks)
    /\ res.duplicate_lines = Cardinality(CoveredLines(res.blocks))

\* a step of one of the two filters
FilterStep == main_pc \in {"changed_filter", "baseline_filter"}

\* C19: every Result of the pipeline, after detection, after the changed-only
\* filter and after the baseline filter, has duplicate_blocks equal to the
\* number of its blocks and duplicate_lines equal to the sum of their counts,
\* and the filters leave files_analyzed and total_lines as they were
C19_ResultAggregates ==
    [][/\ AggregatesAgree(result')
       /\ FilterStep => /\ result'.files_analyzed = result.files_analyzed
                        /\ result'.total_lines = result.total_lines
                        /\ result.files_analyzed
                               = effective_files_to_check(config, Len(corpus))
                        /\ result.total_lines = SumLines(corpus)]_vars

C19_Witness ==
    /\ main_pc = "export"
    /\ changed_files.some
    /\ baseline.some
    /\ result.duplicate_blocks > 0
    /\ result.duplicate_blocks < Len(filter_to_changed_files(detected_result(corpus, config),
                                                             corpus, changed_files.value).blocks)
    /\ Len(filter_to_changed_files(detected_result(corpus, config),
                                   corpus, changed_files.value).blocks)
           < Len(detect_blocks(corpus, config))


(***************************************************************************)
(* Claims about the loader's tolerance (SpecLoad)                          *)
(***************************************************************************)
\* the path cannot be opened, or its bytes cannot be read as text
Unreadable(path) == ~disk[path].readable \/ \E k \in 1..Len(disk[path].bytes) :
                                                disk[path].bytes[k] >= 128

\* the path can be read and cleaning leaves at least one line
HasCleanedLine(path) ==
    /\ ~Unreadable(path)
    /\ get_cleaned_source_lines(buf_lines(disk[path].bytes, <<>>), 1, config.min_chars) # <<>>

PathsOf(seq) == [k \in 1..Len(seq) |-> seq[k].path]

\* C18: a path of the file list that cannot be opened or read gives one
\* warning and is skipped, the load does not fail, the readable files with
\* at least one cleaned line are loaded in the order of the list, and a
\* failed cache write gives a warning while the file is still loaded
C18_LoaderTolerance ==
    LoadReturned =>
        LET v == cache_ret.value
            load_warning(w) == w.kind = "load"
            cache_warning(w) == w.kind = "cache"
            failed_put(p) == p.ret = Err
        IN /\ v.ret = Ok
           /\ PathsOf(SelectSeq(v.warnings, load_warning))
                 = SelectSeq(cache_ret.file_list, Unreadable)
           /\ [k \in 1..Len(v.source_files) |-> v.source_files[k].filename]
                 = SelectSeq(cache_ret.file_list, HasCleanedLine)
           /\ PathsOf(SelectSeq(v.warnings, cache_warning))
                 = PathsOf(SelectSeq(v.puts, failed_put))
           /\ \A k \in 1..Len(v.puts) :
                 \E i \in 1..Len(v.source_files) :
                     /\ v.source_files[i].filename = v.puts[k].path
                     /\ v.source_files[i].lines = v.puts[k].lines

C18_Witness ==
    /\ LoadReturned
    /\ Len(cache_ret.file_list) = 2
    /\ Unreadable(cache_ret.file_list[1])
    /\ Len(cache_ret.value.warnings) = 2
    /\ cache_ret.value.warnings[1].kind = "load"
    /\ cache_ret.value.warnings[2].kind = "cache"
    /\ Len(cache_ret.value.source_files) = 1
    /\ cache_ret.value.source_files[1].filename = cache_ret.file_list[2]


(***************************************************************************)
(* SpecSameName: the detection run over corpora in which the first two     *)
(* files share their basename and every further file has one of its own,   *)
(* with the same-filename flag set or unset.                               *)
(***************************************************************************)
SameNameContents == {<<1>>, <<1, 2>>, <<2, 1>>, <<1, 1>>}

\* file k is "k/1" for k <= 2 and "k/k" after
SameNameCorpora ==
    UNION {{[k \in 1..f |-> SourceFile_new(<<k, IF k <= 2 THEN 1 ELSE k>>, c[k])] :
               c \in [1..f -> SameNameContents]} : f \in {0, RunMaxFiles + 1}}

SameNameInit ==
    /\ config \in {Config(DefaultMinChars, 1, 100, cap, t, flag) :
                      cap \in RunFileCaps, t \in RunThreadCounts, flag \in BOOLEAN}
    /\ source_files \in SameNameCorpora
    /\ max_lines = longest(source_files)
    /\ hash_index = <<>>
    /\ files_to_check = 0
    /\ task_state = <<>>
    /\ results = <<>>
    /\ finished = <<>>
    /\ result = NoResult
    /\ run_pc = "loaded"
    /\ PairIdle
    /\ CacheIdle
    /\ MainIdle
    /\ AuxIdle

SpecSameName == SameNameInit /\ [][RunNext]_vars

(***************************************************************************)
(* Claims about the same-filename flag (SpecSameName)                      *)
(***************************************************************************)
\* the last path component of file i (0-based)
NameOf(i) == source_files[i + 1].filename[Len(source_files[i + 1].filename)]

\* a block between two distinct files of equal basename
SameNamePair(b) ==
    b.source1_idx # b.source2_idx /\ NameOf(b.source1_idx) = NameOf(b.source2_idx)

\* the blocks of the run over the same files with the flag unset
UnflaggedBlocks ==
    detect_blocks(source_files, [config EXCEPT !.ignore_same_filename = FALSE])

\* C20: with the flag set no block relates two distinct files of equal
\* basename, and the other blocks, between files of different basenames and
\* of a file with itself, are exactly those of the run without the flag;
\* with the flag unset every pair of files of equal basename that has a
\* duplicated run to report has its blocks
C20_IgnoreSameFilename ==
    RunDone =>
        /\ config.ignore_same_filename =>
              /\ \A k \in 1..Len(result.blocks) : ~SameNamePair(result.blocks[k])
              /\ result.blocks = SelectSeq(UnflaggedBlocks, LAMBDA b : ~SameNamePair(b))
        /\ ~config.ignore_same_filename =>
              \A i \in 0..(files_to_check - 1) : \A j \in (i + 1)..(Len(source_files) - 1) :
                  (NameOf(i) = NameOf(j) /\ RunsToReport(i, j) # {}) =>
                      Cardinality(BlocksOfPair(i, j)) = Cardinality(RunsToReport(i, j))

C20_Witness ==
    /\ RunDone
    /\ config.ignore_same_filename
    /\ config.files_to_check = 0
    /\ \E k \in 1..Len(UnflaggedBlocks) : SameNamePair(UnflaggedBlocks[k])
    /\ \E k \in 1..Len(result.blocks) :
          result.blocks[k].source1_idx # result.blocks[k].source2_idx
    /\ \E k \in 1..Len(result.blocks) :
          result.blocks[k].source1_idx = result.blocks[k].source2_idx

(***************************************************************************)
(* The index arithmetic of process_file_pair (core/processor.rs).  Every   *)
(* slice, bit and line access and every usize subtraction of the function  *)
(* is an access [op, value, limit]: it panics unless 0 <= value < limit.   *)
(***************************************************************************)
\* self.matrix[..size].fill(false): the slice needs size <= matrix.len()
FillAccess(matrix, size) ==
    [op |-> "fill", value |-> size, limit |-> Cardinality(DOMAIN matrix) + 1]

\* context.matrix[k] and context.matrix.set(k, true)
MatrixAccess(matrix, k) ==
    [op |-> "matrix", value |-> k, limit |-> Cardinality(DOMAIN matrix)]

\* source.get_line(k): &self.source_lines[k]
LineAccess(len, k) == [op |-> "get_line", value |-> k, limit |-> len]

\* the usize subtraction a - b
SubAccess(a, b) == [op |-> "sub", value |-> a - b, limit |-> a + 1]

InRange(access) == 0 <= access.value /\ access.value < access.limit

\* the bit read of the scans; a read the bit vector refuses counts as unset
matrix_bit(p, k) == k \in DOMAIN p.matrix /\ p.matrix[k]

\* reset_matrix and the population loop
populate_accesses(matrix, m, n) ==
    {FillAccess(matrix, m * n)}
    \cup {LineAccess(m, y) : y \in 0..(m - 1)}
    \cup {LineAccess(n, x) : x \in 0..(n - 1)}
    \cup {MatrixAccess(matrix, x + n * y) : y \in 0..(m - 1), x \in 0..(n - 1)}

\* the inner loop of the vertical pass, from column x on
RECURSIVE vertical_inner_accesses(_, _, _, _, _)
vertical_inner_accesses(p, y, x, seq_len, acc) ==
    IF x >= Min(p.n, p.m - y)
    THEN [seq_len |-> seq_len, acc |-> acc]
    ELSE LET read == MatrixAccess(p.matrix, x + p.n * (y + x))
         IN IF matrix_bit(p, x + p.n * (y + x))
            THEN vertical_inner_accesses(p, y, x + 1, seq_len + 1, acc \cup {read})
            ELSE vertical_inner_accesses(p, y, x + 1, 0,
                    acc \cup {read}
                        \cup (IF seq_len >= p.min_block_size
                              THEN {SubAccess(y + x, seq_len), SubAccess(x, seq_len)}
                              ELSE {}))

\* the vertical pass from row y on
RECURSIVE vertical_accesses(_, _, _)
vertical_accesses(p, y, acc) ==
    IF y >= p.m
    THEN acc
    ELSE LET r == vertical_inner_accesses(p, y, 0, 0, acc \cup {SubAccess(p.m, y)})
         IN vertical_accesses(p, y + 1,
               r.acc \cup (IF r.seq_len >= p.min_block_size
                           THEN {SubAccess(p.m, r.seq_len),
                                 SubAccess(Min(p.n, p.m - y), r.seq_len)}
                           ELSE {}))

\* the inner loop of the horizontal pass, from row y on
RECURSIVE horizontal_inner_accesses(_, _, _, _, _)
horizontal_inner_accesses(p, x, y, seq_len, acc) ==
    IF y >= Min(p.m, p.n - x)
    THEN [seq_len |-> seq_len, acc |-> acc]
    ELSE LET read == MatrixAccess(p.matrix, x + y + p.n * y)
         IN IF matrix_bit(p, x + y + p.n * y)
            THEN horizontal_inner_accesses(p, x, y + 1, seq_len + 1, acc \cup {read})
            ELSE horizontal_inner_accesses(p, x, y + 1, 0,
                    acc \cup {read}
                        \cup (IF seq_len >= p.min_block_size
                              THEN {SubAccess(y, seq_len), SubAccess(x + y, seq_len)}
                              ELSE {}))

\* the horizontal pass from column x on (x starts at 1)
RECURSIVE horizontal_accesses(_, _, _)
horizontal_accesses(p, x, acc) ==
    IF x >= p.n
    THEN acc
    ELSE LET r == horizontal_inner_accesses(p, x, 0, 0, acc \cup {SubAccess(p.n, x)})
         IN horizontal_accesses(p, x + 1,
               r.acc \cup (IF r.seq_len >= p.min_block_size
                           THEN {SubAccess(p.m, r.seq_len), SubAccess(p.n, r.seq_len)}
                           ELSE {}))

\* every access of one call of process_file_pair
pair_accesses(s1, s2, idx1, idx2, cfg, matrix) ==
    LET m == Len(s1)
        n == Len(s2)
    IN IF m = 0 \/ n = 0
       THEN {}
       ELSE LET p == [matrix |-> populate_matrix(reset_matrix(matrix, m, n), s1, s2),
                      m |-> m, n |-> n,
                      min_block_size |-> calc_min_block_size(cfg, m, n),
                      is_same_file |-> (idx1 = idx2),
                      source1_idx |-> idx1, source2_idx |-> idx2]
                vertical == vertical_accesses(p, 0, populate_accesses(matrix, m, n))
            IN IF p.is_same_file THEN vertical ELSE horizontal_accesses(p, 1, vertical)

\* the line accesses the exporters (export/json.rs, console.rs, xml.rs) and
\* compute_block_hash make for one block of two files with m and n lines
block_accesses(b, m, n) ==
    {LineAccess(m, b.line1), LineAccess(m, b.line1 + b.count - 1),
     LineAccess(n, b.line2), LineAccess(n, b.line2 + b.count - 1),
     [op |-> "get_lines", value |-> b.line1 + b.count, limit |-> m + 1],
     SubAccess(b.line1 + b.count, b.line1)}
    \cup {LineAccess(m, b.line1 + i) : i \in 0..(b.count - 1)}

PairAccesses ==
    pair_accesses(source1, source2, source1_idx, source2_idx, config, context)

\* C21: process_file_pair on any two cleaned-line sequences (an empty one gives
\* no blocks) with a matrix sized for the longer one and B >= 1 makes no matrix
\* or line access out of range and no index computation below zero, and every
\* emitted block has line1 + count <= m and line2 + count <= n, so the
\* exporters' and the baseline's line accesses for it are in range.
C21_NoPanic ==
    PairDone =>
        /\ \A access \in PairAccesses : InRange(access)
        /\ (Len(source1) = 0 \/ Len(source2) = 0) => pair_blocks = <<>>
        /\ \A b \in PairBlocks :
              /\ b.line1 + b.count <= Len(source1)
              /\ b.line2 + b.count <= Len(source2)
              /\ \A access \in block_accesses(b, Len(source1), Len(source2)) :
                    InRange(access)

\* a pair of files of different lengths whose matrix is larger than m * n and
\* that has a block ending at the last line of source1
C21_Witness ==
    /\ PairDone
    /\ Len(source1) < Len(source2)
    /\ config.min_block_size >= 1
    /\ \E b \in PairBlocks : b.line1 + b.count = Len(source1) /\ b.count >= 2
    /\ \E access \in PairAccesses : access.op = "sub" /\ access.value = 0

(***************************************************************************)
(* SpecRunFair: the detection run under a fair pool.  The calling thread   *)
(* goes on (index, pool.install, aggregation), an idle worker takes a      *)
(* pending task, and the closure of a running task returns.                *)
(***************************************************************************)
\* the closure of outer index i returns: what its worker's progress shows in
\* the task table
TaskReturns(i) ==
    /\ run_pc = "processing"
    /\ task_state[i + 1] = "running"
    /\ task_state' = [task_state EXCEPT ![i + 1] = "done"]

SpecRunFair ==
    /\ RunInit
    /\ [][RunNext]_vars
    /\ WF_vars(EmptyCorpus \/ BuildIndex \/ Aggregate)
    /\ WF_vars(\E i \in 0..(files_to_check - 1) : StartTask(i))
    /\ WF_task_state(\E i \in 0..(files_to_check - 1) : TaskReturns(i))

\* F = min(file cap, corpus size), a cap of 0 meaning all files
TaskCount ==
    IF config.files_to_check = 0 \/ config.files_to_check > Len(source_files)
    THEN Len(source_files)
    ELSE config.files_to_check

TasksDone == {i \in 0..(Len(task_state) - 1) : task_state[i + 1] = "done"}

\* the tasks of the run are those of the outer indices below F, each one
\* completed at most once, and the result exists only once all have completed
TasksAndResult ==
    /\ run_pc \in {"processing", "done"} /\ source_files # <<>> =>
          /\ DOMAIN task_state = 1..TaskCount
          /\ \A k, l \in 1..Len(finished) : finished[k] = finished[l] => k = l
          /\ {finished[k] : k \in 1..Len(finished)} = TasksDone
    /\ run_pc # "done" => result = NoResult
    /\ RunDone =>
          /\ TasksDone = 0..(TaskCount - 1)
          /\ Len(finished) = TaskCount
          /\ result.files_analyzed = TaskCount
          /\ \A b \in ResultBlocks :
                /\ b.source1_idx < TaskCount
                /\ b.source2_idx >= b.source1_idx
                /\ b.source2_idx < Len(source_files)

TaskMaxFiles == 3   \* files in the corpus

TaskCorpora ==
    {[k \in 1..TaskMaxFiles |-> SourceFile_new(<<k, k>>, c[k])] :
        c \in [1..TaskMaxFiles -> RunContents]}

TasksInit ==
    /\ config \in {Config(DefaultMinChars, 1, DefaultPercent, cap, t, FALSE) :
                      cap \in {0, 2}, t \in RunThreadCounts}
    /\ source_files \in TaskCorpora
    /\ max_lines = longest(source_files)
    /\ hash_index = <<>>
    /\ files_to_check = 0
    /\ task_state = <<>>
    /\ results = <<>>
    /\ finished = <<>>
    /\ result = NoResult
    /\ run_pc = "loaded"
    /\ task_context = [i \in 1..Len(source_files) |-> <<>>]
    /\ task_cursor = [i \in 1..Len(source_files) |-> 0]
    /\ CleanIdle
    /\ PairIdle
    /\ CacheIdle
    /\ MainIdle

\* build the index and hand the tasks to the pool
TasksBuildIndex ==
    /\ run_pc = "loaded"
    /\ hash_index' = build_hash_index(source_files)
    /\ files_to_check' = effective_files_to_check(config, Len(source_files))
    /\ task_state' = [i \in 1..files_to_check' |-> "pending"]
    /\ results' = [i \in 1..files_to_check' |-> <<>>]
    /\ run_pc' = "processing"
    /\ UNCHANGED <<main_vars, config, pair_vars, cache_vars, source_files, max_lines,
                   finished, result, aux_vars>>

\* a worker enters the closure of outer index i: the matching set, a new
\* ThreadContext, an empty all_blocks
EnterTask(i) ==
    /\ run_pc = "processing"
    /\ task_state[i + 1] = "pending"
    /\ Cardinality(Running) < config.num_threads
    /\ task_state' = [task_state EXCEPT ![i + 1] = "running"]
    /\ task_context' = [task_context EXCEPT ![i + 1] = ThreadContext_new(max_lines)]
    /\ task_cursor' = [task_cursor EXCEPT ![i + 1] = i]
    /\ UNCHANGED <<main_vars, config, pair_vars, cache_vars, source_files, max_lines,
                   hash_index, files_to_check, results, finished, result, run_pc,
                   clean_vars>>

\* the next file of the task of outer index i is compared or skipped
TaskCompares(i, j) ==
    \/ j = i
    \/ /\ ~(config.ignore_same_filename
            /\ has_same_basename(source_files[i + 1], source_files[j + 1]))
       /\ j \in get_matching_files(source_files[i + 1], hash_index)

\* one step of the closure of outer index i: the self comparison, or one
\* round of the loop over the later files
ComparePair(i) ==
    /\ run_pc = "processing"
    /\ task_state[i + 1] = "running"
    /\ task_cursor[i + 1] < Len(source_files)
    /\ LET j == task_cursor[i + 1]
       IN IF TaskCompares(i, j)
          THEN /\ task_context' =
                     [task_context EXCEPT ![i + 1] =
                         process_file_pair(source_files[i + 1].lines,
                                           source_files[j + 1].lines,
                                           i, j, config, task_context[i + 1]).matrix]
               /\ results' =
                     [results EXCEPT ![i + 1] =
                         @ \o process_file_pair(source_files[i + 1].lines,
                                                source_files[j + 1].lines,
                                                i, j, config, task_context[i + 1]).blocks]
          ELSE UNCHANGED <<task_context, results>>
    /\ task_cursor' = [task_cursor EXCEPT ![i + 1] = @ + 1]
    /\ UNCHANGED <<main_vars, config, pair_vars, cache_vars, source_files, max_lines,
                   hash_index, files_to_check, task_state, finished, result, run_pc,
                   clean_vars>>

\* the closure of outer index i returns its all_blocks
LeaveTask(i) ==
    /\ run_pc = "processing"
    /\ task_state[i + 1] = "running"
    /\ task_cursor[i + 1] = Len(source_files)
    /\ task_state' = [task_state EXCEPT ![i + 1] = "done"]
    /\ finished' = Append(finished, i)
    /\ UNCHANGED <<main_vars, config, pair_vars, cache_vars, source_files, max_lines,
                   hash_index, files_to_check, results, result, run_pc, aux_vars>>

TasksNext ==
    \/ TasksBuildIndex
    \/ \E i \in 0..(files_to_check - 1) : EnterTask(i)
    \/ \E i \in 0..(files_to_check - 1) : ComparePair(i)
    \/ \E i \in 0..(files_to_check - 1) : LeaveTask(i)
    \/ Aggregate

SpecTasks == TasksInit /\ [][TasksNext]_vars

\* every content a scratch matrix for files of up to maxl lines can have
ScratchContents(maxl) == [0..(maxl * maxl - 1) -> BOOLEAN]

\* the blocks of the pair (i, j) computed on a new all-zero matrix
FreshBlocks(i, j) ==
    process_file_pair(source_files[i + 1].lines, source_files[j + 1].lines, i, j,
                      config, ThreadContext_new(max_lines)).blocks

\* the all_blocks of task i after its rounds below j, each pair on a new matrix
RECURSIVE FreshTaskBlocks(_, _, _)
FreshTaskBlocks(i, from, j) ==
    IF from >= j
    THEN <<>>
    ELSE (IF TaskCompares(i, from) THEN FreshBlocks(i, from) ELSE <<>>)
         \o FreshTaskBlocks(i, from + 1, j)

\* the pair a running task compares next
NextPairOf(i) == task_cursor[i + 1]
AtPair(i) ==
    /\ i + 1 \in DOMAIN task_state
    /\ task_state[i + 1] = "running"
    /\ NextPairOf(i) < Len(source_files)
    /\ TaskCompares(i, NextPairOf(i))

\* what a task has collected equals the blocks of its pairs on new matrices,
\* the next pair gives the same blocks on every matrix content, and its scans
\* read no cell at or beyond m * n
ScratchReuse ==
    \A i \in 0..(Len(source_files) - 1) :
        /\ i + 1 \in DOMAIN task_state /\ task_state[i + 1] # "pending" =>
              results[i + 1] = FreshTaskBlocks(i, i, NextPairOf(i))
        /\ AtPair(i) =>
              LET s1 == source_files[i + 1].lines
                  s2 == source_files[NextPairOf(i) + 1].lines
              IN /\ \A matrix \in ScratchContents(max_lines) :
                       process_file_pair(s1, s2, i, NextPairOf(i), config, matrix).blocks
                           = FreshBlocks(i, NextPairOf(i))
                 /\ \A access \in pair_accesses(s1, s2, i, NextPairOf(i), config,
                                                task_context[i + 1]) :
                       access.op = "matrix" => access.value < Len(s1) * Len(s2)

\* a step of one task leaves the matrix and the block vector of every other
\* task alone, and its own matrix beyond m * n
OwnScratchOnly ==
    \A i \in 0..(Len(source_files) - 1) :
        AtPair(i) /\ task_cursor'[i + 1] # task_cursor[i + 1] =>
            /\ \A k \in DOMAIN task_context :
                  k # i + 1 => task_context'[k] = task_context[k]
            /\ \A k \in DOMAIN results : k # i + 1 => results'[k] = results[k]
            /\ \A cell \in DOMAIN task_context[i + 1] :
                  cell >= Len(source_files[i + 1].lines)
                            * Len(source_files[NextPairOf(i) + 1].lines)
                  => task_context'[i + 1][cell] = task_context[i + 1][cell]

\* C27: a task reuses one scratch matrix for its successive pairs of different
\* shapes; the cells below m * n are cleared before a pair is populated and the
\* scans read only those, so the blocks of a pair are those of a new all-zero
\* matrix whatever the matrix held before, and a task neither reads nor writes
\* the matrix or the block vector of another task.
C27_ScratchReuse == []ScratchReuse /\ [][OwnScratchOnly]_vars

\* a task that has compared a 2 x 2 self pair leaving bits set and compares a
\* 2 x 1 pair next, while another task is running with a matrix of its own
C27_Witness ==
    /\ AtPair(0)
    /\ NextPairOf(0) = 1
    /\ Len(source_files[1].lines) = 2
    /\ Len(source_files[2].lines) = 1
    /\ \E cell \in DOMAIN task_context[1] : cell >= 2 /\ task_context[1][cell]
    /\ task_context[1][1]
    /\ task_state[2] = "running"
    /\ task_context[2] # task_context[1]
    /\ results[1] # <<>>

(***************************************************************************)
(* Claims about the inverted index (SpecRun)                               *)
(***************************************************************************)
HasHash(i, h) == \E k \in 1..Len(FileLines(i)) : FileLines(i)[k] = h

\* the index lists, under each hash of the corpus, the files that have it, in
\* non-decreasing order
IndexExact ==
    /\ DOMAIN hash_index =
          UNION {{FileLines(i)[k] : k \in 1..Len(FileLines(i))} :
                    i \in 0..(Len(source_files) - 1)}
    /\ \A h \in DOMAIN hash_index :
          /\ \A k \in 1..(Len(hash_index[h]) - 1) : hash_index[h][k] <= hash_index[h][k + 1]
          /\ \A i \in 0..(Len(source_files) - 1) :
                HasHash(i, h) <=> \E k \in 1..Len(hash_index[h]) : hash_index[h][k] = i

\* the index skips the pair (i, j) only if the two files share no line hash
SkipsOnlyDisjoint ==
    \A i \in 0..(files_to_check - 1), j \in 0..(Len(source_files) - 1) :
        j > i /\ j \notin get_matching_files(source_files[i + 1], hash_index)
        => ~SharesHash(i, j)

\* the blocks of outer index i from j on when every later file is compared
\* (but for the same-filename skip), each pair on a new matrix
RECURSIVE AllPairsFrom(_, _)
AllPairsFrom(i, j) ==
    IF j >= Len(source_files)
    THEN <<>>
    ELSE (IF config.ignore_same_filename
             /\ has_same_basename(source_files[i + 1], source_files[j + 1])
          THEN <<>>
          ELSE FreshPairBlocks(i, j))
         \o AllPairsFrom(i, j + 1)

\* the block vector of a run that does not consult the index
RECURSIVE AllPairsVector(_)
AllPairsVector(i) ==
    IF i >= files_to_check
    THEN <<>>
    ELSE FreshPairBlocks(i, i) \o AllPairsFrom(i, i + 1) \o AllPairsVector(i + 1)

\* C28: the inverted index maps each line hash to the non-decreasing list of
\* the files that have a line with that hash; it skips a pair (i, j), j > i,
\* only if the two files share no line hash, so for B >= 1 the block vector
\* of the run equals that of a run comparing every pair without the index.
C28_IndexPruningLossless ==
    /\ run_pc \in {"processing", "done"} /\ source_files # <<>> =>
          IndexExact /\ SkipsOnlyDisjoint
    /\ RunDone /\ source_files # <<>> => result.blocks = AllPairsVector(0)

\* a finished run of two files that share no hash (the index skipped the
\* pair) of which the first has the same hash on two lines
C28_Witness ==
    /\ RunDone
    /\ Len(source_files) = 2
    /\ files_to_check = 2
    /\ ~SharesHash(0, 1)
    /\ 1 \notin get_matching_files(source_files[1], hash_index)
    /\ \E h \in DOMAIN hash_index : hash_index[h] = <<0, 0>>
    /\ result.blocks # <<>>

(***************************************************************************)
(* Claims about a run with --baseline and --save-baseline (SpecMain)       *)
(***************************************************************************)
\* the blocks of the detection that the changed-only filter keeps
ChangedSurvivors ==
    LET touches(b) == \/ source_files[b.source1_idx + 1].filename \in changed_files.value
                      \/ source_files[b.source2_idx + 1].filename \in changed_files.value
        detected == detect_blocks(source_files, config)
    IN IF changed_files.some THEN SelectSeq(detected, touches) ELSE detected

\* and of those, the blocks the loaded baseline does not know
BaselineSurvivors ==
    LET unknown(b) == ~KnownByPairAndHash(baseline.value, b, source_files)
    IN IF baseline.some THEN SelectSeq(ChangedSurvivors, unknown) ELSE ChangedSurvivors

\* the fingerprint of a block as a baseline entry
FingerprintEntry(b) ==
    [file1 |-> SortedPaths(b, source_files)[1],
     file2 |-> SortedPaths(b, source_files)[2],
     content_hash |-> BlockHash(b, source_files),
     line_count |-> b.count]

\* the baseline file that lists the fingerprints of the given blocks
FingerprintFile(blocks) ==
    serialize_baseline([version |-> BASELINE_VERSION,
                        config_hash |-> detection_config_hash(config),
                        entries |-> [k \in 1..Len(blocks) |-> FingerprintEntry(blocks[k])]])

SuppressedBlocks ==
    {ChangedSurvivors[k] : k \in 1..Len(ChangedSurvivors)}
        \ {BaselineSurvivors[k] : k \in 1..Len(BaselineSurvivors)}

\* the save phase is reached only with the filtered result exported
SaveAfterExport ==
    main_pc = "save_baseline" =>
        /\ stdout = Some(result)
        /\ result.blocks = BaselineSurvivors
        /\ Error("BaselineError") \notin stderr
        /\ Error("BaselineVersionMismatch") \notin stderr

\* the baseline file changes in the save phase only, and a save that
\* succeeds writes the fingerprints of the surviving blocks, in order, and
\* none of a suppressed block
SaveWritesSurvivors ==
    /\ baseline_file' # baseline_file => main_pc = "save_baseline"
    /\ main_pc = "save_baseline" /\ main_pc' = "exit" /\ baseline_origin' # baseline_origin =>
          /\ baseline_file' = FingerprintFile(BaselineSurvivors)
          /\ \A b \in SuppressedBlocks :
                \A k \in 1..Len(baseline_file'.json.entries) :
                    deserialize_baseline(baseline_file').entries[k]
                        # FingerprintEntry(b)

\* C29: with --baseline and --save-baseline the baseline is saved after the
\* changed-only and baseline filters and after export, from the filtered
\* result: the new baseline lists exactly the fingerprints of the surviving
\* blocks, one per block and in order, and none of a block suppressed as
\* known; no baseline is written when the export or the baseline load fails.
C29_SaveAfterFilter == []SaveAfterExport /\ [][SaveWritesSurvivors]_vars

\* a run that loaded a baseline, suppressed a block, kept two blocks with
\* different fingerprints and has saved the new baseline
C29_Witness ==
    /\ main_pc = "exit"
    /\ baseline.some
    /\ baseline_origin.some
    /\ SuppressedBlocks # {}
    /\ Len(result.blocks) >= 2
    /\ FingerprintEntry(result.blocks[1]) # FingerprintEntry(result.blocks[2])
    /\ baseline_file = FingerprintFile(result.blocks)


(***************************************************************************)
(* The language cleaners (filetype/*.rs).  A line is a sequence of ASCII   *)
(* bytes, so a char of the source is a byte here and a byte offset of      *)
(* find/rfind is a 0-based index.                                          *)
(***************************************************************************)

\* str::starts_with, str::ends_with
starts_with(s, p) == Len(s) >= Len(p) /\ SubSeq(s, 1, Len(p)) = p
ends_with(s, p) == Len(s) >= Len(p) /\ SubSeq(s, Len(s) - Len(p) + 1, Len(s)) = p

\* the 0-based offsets at which pattern p occurs in s
match_offsets(s, p) ==
    {k \in 0..(Len(s) - Len(p)) : SubSeq(s, k + 1, k + Len(p)) = p}

\* str::contains
contains(s, p) == match_offsets(s, p) # {}

\* str::find, str::rfind: the offset of the first, the last occurrence
find(s, p) ==
    LET at == match_offsets(s, p)
    IN IF at = {} THEN None ELSE Some(CHOOSE k \in at : \A o \in at : k <= o)

rfind(s, p) ==
    LET at == match_offsets(s, p)
    IN IF at = {} THEN None ELSE Some(CHOOSE k \in at : \A o \in at : k >= o)

\* &s[..idx] and &s[idx..]
str_to(s, idx) == SubSeq(s, 1, idx)
str_from(s, idx) == SubSeq(s, idx + 1, Len(s))

\* str::split_whitespace, collected: the maximal runs of non-whitespace bytes
RECURSIVE split_whitespace_from(_, _)
split_whitespace_from(s, word) ==
    IF s = <<>>
    THEN IF word = <<>> THEN <<>> ELSE <<word>>
    ELSE IF is_whitespace(Head(s))
         THEN (IF word = <<>> THEN <<>> ELSE <<word>>) \o split_whitespace_from(Tail(s), <<>>)
         ELSE split_whitespace_from(Tail(s), Append(word, Head(s)))

split_whitespace(s) == split_whitespace_from(s, <<>>)

\* char::is_uppercase on ASCII
is_uppercase(b) == b >= 65 /\ b <= 90

\* the cleaners' loop variables before the first line; a cleaner that lacks a
\* variable never changes it
CleanerStart ==
    [in_block_comment |-> FALSE, comment_depth |-> 0,
     in_signature |-> FALSE, paren_depth |-> 0,
     in_multiline_string |-> FALSE, multiline_delimiter |-> None]

\* `continue` without a push, and the closing `if is_valid_line { result.push }`
skip_line(st) == [state |-> st, out |-> <<>>]

push_if_valid(st, cleaned, min_chars, line_num) ==
    [state |-> st,
     out |-> IF is_valid_line(cleaned, min_chars)
             THEN <<SourceLine_new(cleaned, line_num + 1)>>
             ELSE <<>>]

\* a char loop that forgets an open block comment at the end of the line
RECURSIVE comment_scan_mutant(_, _, _, _, _)
comment_scan_mutant(line, i, in_block_comment, cleaned, line_comment) ==
    IF i > Len(line)
    THEN [cleaned |-> cleaned, in_block_comment |-> FALSE]
    ELSE LET c == line[i]
             peek == IF i < Len(line) THEN Some(line[i + 1]) ELSE None
         IN IF in_block_comment
            THEN IF c = 42 /\ peek = Some(47)
                 THEN comment_scan_mutant(line, i + 2, FALSE, cleaned, line_comment)
                 ELSE comment_scan_mutant(line, i + 1, TRUE, cleaned, line_comment)
            ELSE IF c = 47 /\ peek = Some(42)
                 THEN comment_scan_mutant(line, i + 2, TRUE, cleaned, line_comment)
                 ELSE IF line_comment /\ c = 47 /\ peek = Some(47)
                      THEN [cleaned |-> cleaned, in_block_comment |-> FALSE]
                      ELSE comment_scan_mutant(line, i + 1, FALSE, Append(cleaned, c),
                                               line_comment)

\* the char loop of the C, C#, Java and JS/TS cleaners (line_comment TRUE) and of
\* the CSS cleaner (line_comment FALSE), from char i on
RECURSIVE comment_scan(_, _, _, _, _)
comment_scan(line, i, in_block_comment, cleaned, line_comment) ==
    IF i > Len(line)
    THEN [cleaned |-> cleaned, in_block_comment |-> in_block_comment]
    ELSE LET c == line[i]
             peek == IF i < Len(line) THEN Some(line[i + 1]) ELSE None
         IN IF in_block_comment
            THEN IF c = 42 /\ peek = Some(47)     \* '*' '/'
                 THEN comment_scan(line, i + 2, FALSE, cleaned, line_comment)
                 ELSE comment_scan(line, i + 1, TRUE, cleaned, line_comment)
            ELSE IF c = 47 /\ peek = Some(42)     \* '/' '*'
                 THEN comment_scan(line, i + 2, TRUE, cleaned, line_comment)
                 ELSE IF line_comment /\ c = 47 /\ peek = Some(47)   \* '/' '/'
                      THEN [cleaned |-> cleaned, in_block_comment |-> FALSE]
                      ELSE comment_scan(line, i + 1, FALSE, Append(cleaned, c), line_comment)

\* CFileType::is_preprocessor_directive, CSharpFileType::is_preprocessor_directive
C_is_preprocessor_directive(line) == starts_with(trim_start(line), <<35>>)   \* "#"

\* one iteration of CFileType::get_cleaned_source_lines
C_clean_line(ft, st, line, line_num) ==
    LET scan == comment_scan(line, 1, st.in_block_comment, <<>>, TRUE)
        st1 == [st EXCEPT !.in_block_comment = scan.in_block_comment]
        cleaned == clean_whitespace(scan.cleaned)
    IN IF cleaned = <<>>
       THEN skip_line(st1)
       ELSE IF ft.ignore_preprocessor /\ C_is_preprocessor_directive(cleaned)
            THEN skip_line(st1)
            ELSE push_if_valid(st1, cleaned, ft.min_chars, line_num)

\* one iteration of CSharpFileType::get_cleaned_source_lines: directives are
\* always dropped
CSharp_clean_line(ft, st, line, line_num) ==
    LET scan == comment_scan(line, 1, st.in_block_comment, <<>>, TRUE)
        st1 == [st EXCEPT !.in_block_comment = scan.in_block_comment]
        cleaned == clean_whitespace(scan.cleaned)
    IN IF cleaned = <<>>
       THEN skip_line(st1)
       ELSE IF C_is_preprocessor_directive(cleaned)
            THEN skip_line(st1)
            ELSE push_if_valid(st1, cleaned, ft.min_chars, line_num)

\* CssFileType::is_preprocessor_directive
Css_is_preprocessor_directive(line) ==
    LET trimmed == trim_start(line)
    IN \/ starts_with(trimmed, <<64, 105, 109, 112, 111, 114, 116, 32>>)   \* "@import "
       \/ starts_with(trimmed, <<64, 99, 104, 97, 114, 115, 101, 116, 32>>)   \* "@charset "
       \/ starts_with(trimmed, <<64, 117, 115, 101, 32>>)   \* "@use "
       \/ starts_with(trimmed, <<64, 102, 111, 114, 119, 97, 114, 100, 32>>)   \* "@forward "

\* one iteration of CssFileType::get_cleaned_source_lines
Css_clean_line(ft, st, line, line_num) ==
    LET scan == comment_scan(line, 1, st.in_block_comment, <<>>, FALSE)
        st1 == [st EXCEPT !.in_block_comment = scan.in_block_comment]
        cleaned == clean_whitespace(scan.cleaned)
    IN IF cleaned = <<>>
       THEN skip_line(st1)
       ELSE IF Css_is_preprocessor_directive(cleaned)
            THEN skip_line(st1)
            ELSE push_if_valid(st1, cleaned, ft.min_chars, line_num)

\* the byte loop of HtmlFileType::get_cleaned_source_lines from offset i on
RECURSIVE Html_scan(_, _, _, _)
Html_scan(line, i, in_comment, cleaned) ==
    IF ~(i < Len(line))
    THEN [cleaned |-> cleaned, in_block_comment |-> in_comment]
    ELSE IF in_comment
         THEN IF i + 2 < Len(line) /\ SubSeq(line, i + 1, i + 3) = <<45, 45, 62>>   \* "-->"
              THEN Html_scan(line, i + 3, FALSE, cleaned)
              ELSE Html_scan(line, i + 1, TRUE, cleaned)
         ELSE IF i + 3 < Len(line) /\ SubSeq(line, i + 1, i + 4) = <<60, 33, 45, 45>>   \* "<!--"
              THEN Html_scan(line, i + 4, TRUE, cleaned)
              ELSE Html_scan(line, i + 1, FALSE, Append(cleaned, line[i + 1]))

\* one iteration of HtmlFileType::get_cleaned_source_lines
Html_clean_line(ft, st, line, line_num) ==
    LET scan == Html_scan(line, 0, st.in_block_comment, <<>>)
        st1 == [st EXCEPT !.in_block_comment = scan.in_block_comment]
        cleaned == clean_whitespace(scan.cleaned)
    IN IF cleaned = <<>>
       THEN skip_line(st1)
       ELSE push_if_valid(st1, cleaned, ft.min_chars, line_num)

\* VbFileType::is_preprocessor_directive, VbFileType::remove_comment
Vb_is_preprocessor_directive(line) ==
    LET trimmed == trim_start(line)
    IN starts_with(trimmed, <<73, 109, 112, 111, 114, 116, 115, 32>>) \/ starts_with(trimmed, <<35>>)   \* "Imports ", "#"

Vb_remove_comment(line) ==
    LET idx == find(line, <<39>>)   \* "'"
    IN IF idx.some THEN str_to(line, idx.value) ELSE line

\* one iteration of VbFileType::get_cleaned_source_lines
Vb_clean_line(ft, st, line, line_num) ==
    LET cleaned == clean_whitespace(Vb_remove_comment(line))
    IN IF cleaned = <<>>
       THEN skip_line(st)
       ELSE IF ft.ignore_preprocessor /\ Vb_is_preprocessor_directive(cleaned)
            THEN skip_line(st)
            ELSE push_if_valid(st, cleaned, ft.min_chars, line_num)

\* ErlangFileType::is_preprocessor_directive, ErlangFileType::remove_comment
Erlang_is_preprocessor_directive(line) ==
    LET trimmed == trim_start(line)
    IN \/ starts_with(trimmed, <<45, 109, 111, 100, 117, 108, 101>>)   \* "-module"
       \/ starts_with(trimmed, <<45, 101, 120, 112, 111, 114, 116>>)   \* "-export"
       \/ starts_with(trimmed, <<45, 105, 109, 112, 111, 114, 116>>)   \* "-import"
       \/ starts_with(trimmed, <<45, 105, 110, 99, 108, 117, 100, 101>>)   \* "-include"
       \/ starts_with(trimmed, <<45, 100, 101, 102, 105, 110, 101>>)   \* "-define"

Erlang_remove_comment(line) ==
    LET idx == find(line, <<37>>)   \* "%"
    IN IF idx.some THEN str_to(line, idx.value) ELSE line

\* one iteration of ErlangFileType::get_cleaned_source_lines
Erlang_clean_line(ft, st, line, line_num) ==
    LET cleaned == clean_whitespace(Erlang_remove_comment(line))
    IN IF cleaned = <<>>
       THEN skip_line(st)
       ELSE IF ft.ignore_preprocessor /\ Erlang_is_preprocessor_directive(cleaned)
            THEN skip_line(st)
            ELSE push_if_valid(st, cleaned, ft.min_chars, line_num)

\* one iteration of UnknownFileType::get_cleaned_source_lines
Unknown_clean_line(ft, st, line, line_num) ==
    LET cleaned == clean_whitespace(line)
    IN IF cleaned = <<>>
       THEN skip_line(st)
       ELSE push_if_valid(st, cleaned, ft.min_chars, line_num)


\* the signature bookkeeping the Java, Rust and JS/TS cleaners share: a line
\* met in the signature state, and a line recognized as a signature start;
\* marker says that the line has its body-opening marker
in_signature_line(st, balance, marker) ==
    LET depth == st.paren_depth + balance
    IN IF depth <= 0 /\ marker
       THEN skip_line([st EXCEPT !.in_signature = FALSE, !.paren_depth = 0])
       ELSE skip_line([st EXCEPT !.paren_depth = depth])

signature_start_line(st, balance, marker) ==
    IF balance <= 0 /\ marker
    THEN skip_line([st EXCEPT !.paren_depth = 0])
    ELSE skip_line([st EXCEPT !.in_signature = TRUE, !.paren_depth = balance])

\* JavaFileType::is_preprocessor_directive, JavaFileType::is_annotation
Java_is_preprocessor_directive(line) ==
    LET trimmed == trim_start(line)
    IN starts_with(trimmed, <<112, 97, 99, 107, 97, 103, 101, 32>>) \/ starts_with(trimmed, <<105, 109, 112, 111, 114, 116, 32>>)   \* "package ", "import "

Java_is_annotation(line) == starts_with(trim_start(line), <<64>>)   \* "@"

Java_control_keywords ==
    {<<105, 102>>, <<119, 104, 105, 108, 101>>, <<102, 111, 114>>, <<115, 119, 105, 116, 99, 104>>, <<99, 97, 116, 99, 104>>, <<116, 114, 121>>, <<101, 108, 115, 101>>, <<100, 111>>, <<115, 121, 110, 99, 104, 114, 111, 110, 105, 122, 101, 100>>}   \* "if", "while", "for", "switch", "catch", "try", "else", "do", "synchronized"

Java_excluded_starts == {<<114, 101, 116, 117, 114, 110>>, <<116, 104, 114, 111, 119>>, <<110, 101, 119>>, <<115, 117, 112, 101, 114>>, <<116, 104, 105, 115>>}   \* "return", "throw", "new", "super", "this"

Java_signature_starters ==
    {<<112, 117, 98, 108, 105, 99>>, <<112, 114, 105, 118, 97, 116, 101>>, <<112, 114, 111, 116, 101, 99, 116, 101, 100>>, <<115, 116, 97, 116, 105, 99>>, <<102, 105, 110, 97, 108>>, <<97, 98, 115, 116, 114, 97, 99, 116>>, <<110, 97, 116, 105, 118, 101>>, <<115, 121, 110, 99, 104, 114, 111, 110, 105, 122, 101, 100>>, <<100, 101, 102, 97, 117, 108, 116>>, <<118, 111, 105, 100>>}   \* "public", "private", "protected", "static", "final", "abstract", "native", "synchronized", "default", "void"

\* JavaFileType::starts_signature
Java_starts_signature(line) ==
    LET trimmed == trim_start(line)
        paren_pos == find(trimmed, <<40>>)   \* "("
        before_paren == str_to(trimmed, paren_pos.value)
        words == split_whitespace(before_paren)
        first_word == IF words = <<>> THEN <<>> ELSE words[1]
    IN IF \/ contains(trimmed, <<99, 108, 97, 115, 115, 32>>)   \* "class "
          \/ contains(trimmed, <<105, 110, 116, 101, 114, 102, 97, 99, 101, 32>>)   \* "interface "
          \/ contains(trimmed, <<101, 110, 117, 109, 32>>)   \* "enum "
       THEN FALSE
       ELSE IF ~paren_pos.some THEN FALSE
       ELSE IF contains(before_paren, <<46>>) THEN FALSE   \* "."
       ELSE IF first_word \in Java_control_keywords THEN FALSE
       ELSE IF first_word \in Java_excluded_starts THEN FALSE
       ELSE IF contains(trimmed, <<32, 61, 32>>) THEN FALSE   \* " = "
       ELSE IF first_word \in Java_signature_starters THEN TRUE
       ELSE /\ Len(words) >= 2
            /\ is_uppercase(words[1][1]) \/ contains(words[1], <<60>>)   \* "<"

\* JavaFileType::analyze_line from char i on: [paren_balance, has_open_brace]
RECURSIVE Java_analyze_from(_, _, _, _, _, _)
Java_analyze_from(line, i, in_string, in_char, paren_balance, has_open_brace) ==
    IF i > Len(line)
    THEN [paren_balance |-> paren_balance, has_open_brace |-> has_open_brace]
    ELSE LET c == line[i]
             peek == IF i < Len(line) THEN Some(line[i + 1]) ELSE None
         IN IF in_string
            THEN IF c = 34          \* '"'
                 THEN Java_analyze_from(line, i + 1, FALSE, FALSE, paren_balance, has_open_brace)
                 ELSE IF c = 92     \* '\': the escaped char is skipped
                      THEN Java_analyze_from(line, i + 2, TRUE, FALSE, paren_balance, has_open_brace)
                      ELSE Java_analyze_from(line, i + 1, TRUE, FALSE, paren_balance, has_open_brace)
            ELSE IF in_char
            THEN IF c = 39          \* '\''
                 THEN Java_analyze_from(line, i + 1, FALSE, FALSE, paren_balance, has_open_brace)
                 ELSE IF c = 92
                      THEN Java_analyze_from(line, i + 2, FALSE, TRUE, paren_balance, has_open_brace)
                      ELSE Java_analyze_from(line, i + 1, FALSE, TRUE, paren_balance, has_open_brace)
            ELSE IF c = 34
                 THEN Java_analyze_from(line, i + 1, TRUE, FALSE, paren_balance, has_open_brace)
            ELSE IF c = 39
                 THEN Java_analyze_from(line, i + 1, FALSE, TRUE, paren_balance, has_open_brace)
            ELSE IF c = 40          \* '('
                 THEN Java_analyze_from(line, i + 1, FALSE, FALSE, paren_balance + 1, has_open_brace)
            ELSE IF c = 41          \* ')'
                 THEN Java_analyze_from(line, i + 1, FALSE, FALSE, paren_balance - 1, has_open_brace)
            ELSE IF c = 123         \* '{'
                 THEN Java_analyze_from(line, i + 1, FALSE, FALSE, paren_balance, TRUE)
            ELSE IF c = 47 /\ peek = Some(47)     \* line comment
                 THEN [paren_balance |-> paren_balance, has_open_brace |-> has_open_brace]
            ELSE Java_analyze_from(line, i + 1, FALSE, FALSE, paren_balance, has_open_brace)

\* an analysis that takes any '{' of the line for the opening brace
Java_analyze_line_mutant(line) ==
    [paren_balance |-> Java_analyze_from(line, 1, FALSE, FALSE, 0, FALSE).paren_balance,
     has_open_brace |-> contains(line, <<123>>)]   \* "{"

Java_analyze_line(line) == Java_analyze_from(line, 1, FALSE, FALSE, 0, FALSE)

\* one iteration of JavaFileType::get_cleaned_source_lines
Java_clean_line(ft, st, line, line_num) ==
    LET scan == comment_scan(line, 1, st.in_block_comment, <<>>, TRUE)
        st1 == [st EXCEPT !.in_block_comment = scan.in_block_comment]
        cleaned == clean_whitespace(scan.cleaned)
        a == Java_analyze_line(cleaned)
    IN IF cleaned = <<>>
       THEN skip_line(st1)
       ELSE IF st1.in_signature
       THEN in_signature_line(st1, a.paren_balance, a.has_open_brace)
       ELSE IF ft.ignore_preprocessor /\ Java_is_annotation(cleaned)
       THEN skip_line(st1)
       ELSE IF ft.ignore_preprocessor /\ Java_starts_signature(cleaned)
       THEN signature_start_line(st1, a.paren_balance, a.has_open_brace)
       ELSE IF ft.ignore_preprocessor /\ Java_is_preprocessor_directive(cleaned)
       THEN skip_line(st1)
       ELSE push_if_valid(st1, cleaned, ft.min_chars, line_num)

\* the char loop of RustFileType::get_cleaned_source_lines from char i on:
\* block comments nest
RECURSIVE Rust_comment_scan(_, _, _, _, _)
Rust_comment_scan(line, i, in_block_comment, comment_depth, cleaned) ==
    IF i > Len(line)
    THEN [cleaned |-> cleaned, in_block_comment |-> in_block_comment,
          comment_depth |-> comment_depth]
    ELSE LET c == line[i]
             peek == IF i < Len(line) THEN Some(line[i + 1]) ELSE None
         IN IF in_block_comment
            THEN IF c = 47 /\ peek = Some(42)     \* '/' '*'
                 THEN Rust_comment_scan(line, i + 2, TRUE, comment_depth + 1, cleaned)
                 ELSE IF c = 42 /\ peek = Some(47)     \* '*' '/'
                      THEN Rust_comment_scan(line, i + 2, comment_depth - 1 # 0,
                                             comment_depth - 1, cleaned)
                      ELSE Rust_comment_scan(line, i + 1, TRUE, comment_depth, cleaned)
            ELSE IF c = 47 /\ peek = Some(42)
                 THEN Rust_comment_scan(line, i + 2, TRUE, 1, cleaned)
                 ELSE IF c = 47 /\ peek = Some(47)     \* '/' '/'
                      THEN [cleaned |-> cleaned, in_block_comment |-> FALSE,
                            comment_depth |-> comment_depth]
                      ELSE Rust_comment_scan(line, i + 1, FALSE, comment_depth,
                                             Append(cleaned, c))

\* RustFileType::is_preprocessor_directive, RustFileType::is_attribute
Rust_is_preprocessor_directive(line) ==
    LET trimmed == trim_start(line)
    IN \/ starts_with(trimmed, <<117, 115, 101, 32>>)   \* "use "
       \/ starts_with(trimmed, <<109, 111, 100, 32>>)   \* "mod "
       \/ starts_with(trimmed, <<101, 120, 116, 101, 114, 110, 32>>)   \* "extern "
       \/ starts_with(trimmed, <<112, 117, 98, 32, 117, 115, 101, 32>>)   \* "pub use "
       \/ starts_with(trimmed, <<112, 117, 98, 32, 109, 111, 100, 32>>)   \* "pub mod "

Rust_is_attribute(line) ==
    LET trimmed == trim_start(line)
    IN starts_with(trimmed, <<35, 91>>) \/ starts_with(trimmed, <<35, 33, 91>>)   \* "#[", "#!["

\* RustFileType::starts_signature
Rust_starts_signature(line) ==
    LET trimmed == trim_start(line)
    IN IF \/ starts_with(trimmed, <<115, 116, 114, 117, 99, 116, 32>>)   \* "struct "
          \/ starts_with(trimmed, <<101, 110, 117, 109, 32>>)   \* "enum "
          \/ starts_with(trimmed, <<116, 114, 97, 105, 116, 32>>)   \* "trait "
          \/ starts_with(trimmed, <<116, 121, 112, 101, 32>>)   \* "type "
          \/ starts_with(trimmed, <<99, 111, 110, 115, 116, 32>>)   \* "const "
          \/ starts_with(trimmed, <<115, 116, 97, 116, 105, 99, 32>>)   \* "static "
       THEN FALSE
       ELSE IF /\ \/ starts_with(trimmed, <<112, 117, 98, 32, 115, 116, 114, 117, 99, 116, 32>>)   \* "pub struct "
                  \/ starts_with(trimmed, <<112, 117, 98, 32, 101, 110, 117, 109, 32>>)   \* "pub enum "
                  \/ starts_with(trimmed, <<112, 117, 98, 32, 116, 114, 97, 105, 116, 32>>)   \* "pub trait "
                  \/ starts_with(trimmed, <<112, 117, 98, 32, 116, 121, 112, 101, 32>>)   \* "pub type "
                  \/ starts_with(trimmed, <<112, 117, 98, 32, 99, 111, 110, 115, 116, 32>>)   \* "pub const "
                  \/ starts_with(trimmed, <<112, 117, 98, 32, 115, 116, 97, 116, 105, 99, 32>>)   \* "pub static "
                  \/ starts_with(trimmed, <<112, 117, 98, 40>>)   \* "pub("
               /\ ~contains(trimmed, <<32, 102, 110, 32>>)   \* " fn "
       THEN FALSE
       ELSE contains(trimmed, <<102, 110, 32>>)   \* "fn "

\* RustFileType::analyze_line from char i on; mode is "code", "string", "char"
\* or "raw" (in_string, in_char, in_raw_string)
RECURSIVE Rust_analyze_from(_, _, _, _, _)
Rust_analyze_from(line, i, mode, paren_balance, has_open_brace) ==
    IF i > Len(line)
    THEN [paren_balance |-> paren_balance, has_open_brace |-> has_open_brace]
    ELSE LET c == line[i]
             peek == IF i < Len(line) THEN Some(line[i + 1]) ELSE None
         IN IF mode = "raw"
            THEN Rust_analyze_from(line, i + 1, IF c = 34 THEN "code" ELSE "raw",
                                   paren_balance, has_open_brace)
            ELSE IF mode = "string"
            THEN IF c = 34
                 THEN Rust_analyze_from(line, i + 1, "code", paren_balance, has_open_brace)
                 ELSE Rust_analyze_from(line, IF c = 92 THEN i + 2 ELSE i + 1, "string",
                                        paren_balance, has_open_brace)
            ELSE IF mode = "char"
            THEN IF c = 39
                 THEN Rust_analyze_from(line, i + 1, "code", paren_balance, has_open_brace)
                 ELSE Rust_analyze_from(line, IF c = 92 THEN i + 2 ELSE i + 1, "char",
                                        paren_balance, has_open_brace)
            ELSE IF c = 114 /\ peek = Some(34)     \* 'r' '"'
                 THEN Rust_analyze_from(line, i + 2, "raw", paren_balance, has_open_brace)
            ELSE IF c = 34
                 THEN Rust_analyze_from(line, i + 1, "string", paren_balance, has_open_brace)
            ELSE IF c = 39
                 THEN Rust_analyze_from(line, i + 1, "char", paren_balance, has_open_brace)
            ELSE IF c = 40
                 THEN Rust_analyze_from(line, i + 1, "code", paren_balance + 1, has_open_brace)
            ELSE IF c = 41
                 THEN Rust_analyze_from(line, i + 1, "code", paren_balance - 1, has_open_brace)
            ELSE IF c = 123
                 THEN Rust_analyze_from(line, i + 1, "code", paren_balance, TRUE)
            ELSE IF c = 47 /\ peek = Some(47)
                 THEN [paren_balance |-> paren_balance, has_open_brace |-> has_open_brace]
            ELSE Rust_analyze_from(line, i + 1, "code", paren_balance, has_open_brace)

Rust_analyze_line(line) == Rust_analyze_from(line, 1, "code", 0, FALSE)

\* one iteration of RustFileType::get_cleaned_source_lines
Rust_clean_line(ft, st, line, line_num) ==
    LET scan == Rust_comment_scan(line, 1, st.in_block_comment, st.comment_depth, <<>>)
        st1 == [st EXCEPT !.in_block_comment = scan.in_block_comment,
                          !.comment_depth = scan.comment_depth]
        cleaned == clean_whitespace(scan.cleaned)
        a == Rust_analyze_line(cleaned)
    IN IF cleaned = <<>>
       THEN skip_line(st1)
       ELSE IF st1.in_signature
       THEN in_signature_line(st1, a.paren_balance, a.has_open_brace)
       ELSE IF ft.ignore_preprocessor /\ Rust_is_attribute(cleaned)
       THEN skip_line(st1)
       ELSE IF ft.ignore_preprocessor /\ Rust_starts_signature(cleaned)
       THEN signature_start_line(st1, a.paren_balance, a.has_open_brace)
       ELSE IF ft.ignore_preprocessor /\ Rust_is_preprocessor_directive(cleaned)
       THEN skip_line(st1)
       ELSE push_if_valid(st1, cleaned, ft.min_chars, line_num)


\* JavaScriptFileType::is_preprocessor_directive, JavaScriptFileType::is_decorator
JavaScript_is_preprocessor_directive(line) ==
    LET trimmed == trim_start(line)
    IN \/ starts_with(trimmed, <<105, 109, 112, 111, 114, 116, 32>>)   \* "import "
       \/ starts_with(trimmed, <<101, 120, 112, 111, 114, 116, 32>>)   \* "export "
       \/ starts_with(trimmed, <<114, 101, 113, 117, 105, 114, 101, 40>>)   \* "require("
       \/ starts_with(trimmed, <<99, 111, 110, 115, 116, 32>>) /\ contains(trimmed, <<114, 101, 113, 117, 105, 114, 101, 40>>)   \* "const ", "require("

JavaScript_is_decorator(line) == starts_with(trim_start(line), <<64>>)   \* "@"

JavaScript_control_keywords ==
    {<<105, 102>>, <<119, 104, 105, 108, 101>>, <<102, 111, 114>>, <<115, 119, 105, 116, 99, 104>>, <<99, 97, 116, 99, 104>>, <<119, 105, 116, 104>>}   \* "if", "while", "for", "switch", "catch", "with"

JavaScript_excluded ==
    {<<114, 101, 116, 117, 114, 110>>, <<116, 104, 114, 111, 119>>, <<110, 101, 119>>, <<97, 119, 97, 105, 116>>, <<121, 105, 101, 108, 100>>, <<116, 121, 112, 101, 111, 102>>, <<100, 101, 108, 101, 116, 101>>}   \* "return", "throw", "new", "await", "yield", "typeof", "delete"

JavaScript_ts_modifiers ==
    {<<112, 117, 98, 108, 105, 99>>, <<112, 114, 105, 118, 97, 116, 101>>, <<112, 114, 111, 116, 101, 99, 116, 101, 100>>, <<115, 116, 97, 116, 105, 99>>, <<114, 101, 97, 100, 111, 110, 108, 121>>, <<97, 98, 115, 116, 114, 97, 99, 116>>, <<111, 118, 101, 114, 114, 105, 100, 101>>, <<97, 115, 121, 110, 99>>}   \* "public", "private", "protected", "static", "readonly", "abstract", "override", "async"

\* JavaScriptFileType::starts_signature
JavaScript_starts_signature(line) ==
    LET trimmed == trim_start(line)
        paren_pos == find(trimmed, <<40>>)   \* "("
        before_paren == str_to(trimmed, paren_pos.value)
        words == split_whitespace(before_paren)
        first_word == IF words = <<>> THEN <<>> ELSE words[1]
    IN IF \/ starts_with(trimmed, <<99, 108, 97, 115, 115, 32>>)   \* "class "
          \/ starts_with(trimmed, <<105, 110, 116, 101, 114, 102, 97, 99, 101, 32>>)   \* "interface "
          \/ starts_with(trimmed, <<116, 121, 112, 101, 32>>)   \* "type "
          \/ starts_with(trimmed, <<101, 110, 117, 109, 32>>)   \* "enum "
       THEN FALSE
       ELSE IF starts_with(trimmed, <<102, 117, 110, 99, 116, 105, 111, 110, 32>>) \/ starts_with(trimmed, <<97, 115, 121, 110, 99, 32, 102, 117, 110, 99, 116, 105, 111, 110, 32>>)   \* "function ", "async function "
       THEN TRUE
       ELSE IF ~paren_pos.some THEN FALSE
       ELSE IF contains(before_paren, <<46>>) THEN FALSE   \* "."
       ELSE IF first_word \in JavaScript_control_keywords THEN FALSE
       ELSE IF first_word \in JavaScript_excluded THEN FALSE
       ELSE IF \/ starts_with(trimmed, <<99, 111, 110, 115, 116, 32>>)   \* "const "
               \/ starts_with(trimmed, <<108, 101, 116, 32>>)   \* "let "
               \/ starts_with(trimmed, <<118, 97, 114, 32>>)   \* "var "
       THEN FALSE
       ELSE IF first_word \in JavaScript_ts_modifiers THEN TRUE
       ELSE IF /\ Len(words) = 1 \/ (Len(words) = 2 /\ words[1] = <<97, 115, 121, 110, 99>>)   \* "async"
               /\ \/ contains(trimmed, <<123>>)   \* "{"
                  \/ contains(trimmed, <<41, 58>>)   \* "):"
                  \/ contains(trimmed, <<41, 58, 32>>)   \* "): "
                  \/ ends_with(trimmed, <<40>>)   \* "("
       THEN TRUE
       ELSE /\ words # <<>>
            /\ contains(trimmed, <<41, 58, 32>>) \/ contains(trimmed, <<41, 58>>)   \* "): ", "):"

\* JavaScriptFileType::analyze_line from char i on; string_char is 0 outside a
\* string literal, in_template says a template literal is open
RECURSIVE JavaScript_analyze_from(_, _, _, _, _, _, _)
JavaScript_analyze_from(line, i, string_char, in_template, paren_balance, has_open_brace, has_arrow) ==
    IF i > Len(line)
    THEN [paren_balance |-> paren_balance, has_open_brace |-> has_open_brace,
          has_arrow |-> has_arrow]
    ELSE LET c == line[i]
             peek == IF i < Len(line) THEN Some(line[i + 1]) ELSE None
         IN IF in_template
            THEN JavaScript_analyze_from(line, i + 1, 0, c # 96, paren_balance,
                                         has_open_brace, has_arrow)     \* '`'
            ELSE IF string_char # 0
            THEN IF c = string_char
                 THEN JavaScript_analyze_from(line, i + 1, 0, FALSE, paren_balance,
                                              has_open_brace, has_arrow)
                 ELSE JavaScript_analyze_from(line, IF c = 92 THEN i + 2 ELSE i + 1,
                                              string_char, FALSE, paren_balance,
                                              has_open_brace, has_arrow)
            ELSE IF c = 34 \/ c = 39
                 THEN JavaScript_analyze_from(line, i + 1, c, FALSE, paren_balance,
                                              has_open_brace, has_arrow)
            ELSE IF c = 96
                 THEN JavaScript_analyze_from(line, i + 1, 0, TRUE, paren_balance,
                                              has_open_brace, has_arrow)
            ELSE IF c = 40
                 THEN JavaScript_analyze_from(line, i + 1, 0, FALSE, paren_balance + 1,
                                              has_open_brace, has_arrow)
            ELSE IF c = 41
                 THEN JavaScript_analyze_from(line, i + 1, 0, FALSE, paren_balance - 1,
                                              has_open_brace, has_arrow)
            ELSE IF c = 123
                 THEN JavaScript_analyze_from(line, i + 1, 0, FALSE, paren_balance,
                                              TRUE, has_arrow)
            ELSE IF c = 61 /\ peek = Some(62)     \* '=' '>'
                 THEN JavaScript_analyze_from(line, i + 2, 0, FALSE, paren_balance,
                                              has_open_brace, TRUE)
            ELSE IF c = 47 /\ peek = Some(47)
                 THEN [paren_balance |-> paren_balance, has_open_brace |-> has_open_brace,
                       has_arrow |-> has_arrow]
            ELSE JavaScript_analyze_from(line, i + 1, 0, FALSE, paren_balance,
                                         has_open_brace, has_arrow)

JavaScript_analyze_line(line) == JavaScript_analyze_from(line, 1, 0, FALSE, 0, FALSE, FALSE)

\* one iteration of JavaScriptFileType::get_cleaned_source_lines
JavaScript_clean_line(ft, st, line, line_num) ==
    LET scan == comment_scan(line, 1, st.in_block_comment, <<>>, TRUE)
        st1 == [st EXCEPT !.in_block_comment = scan.in_block_comment]
        cleaned == clean_whitespace(scan.cleaned)
        a == JavaScript_analyze_line(cleaned)
    IN IF cleaned = <<>>
       THEN skip_line(st1)
       ELSE IF st1.in_signature
       THEN in_signature_line(st1, a.paren_balance, a.has_open_brace \/ a.has_arrow)
       ELSE IF JavaScript_is_decorator(cleaned)
       THEN skip_line(st1)
       ELSE IF JavaScript_starts_signature(cleaned)
       THEN signature_start_line(st1, a.paren_balance, a.has_open_brace \/ a.has_arrow)
       ELSE IF JavaScript_is_preprocessor_directive(cleaned)
       THEN skip_line(st1)
       ELSE push_if_valid(st1, cleaned, ft.min_chars, line_num)

\* PythonFileType::is_preprocessor_directive, is_decorator, starts_signature
Python_is_preprocessor_directive(line) ==
    LET trimmed == trim_start(line)
    IN starts_with(trimmed, <<105, 109, 112, 111, 114, 116, 32>>) \/ starts_with(trimmed, <<102, 114, 111, 109, 32>>)   \* "import ", "from "

Python_is_decorator(line) == starts_with(trim_start(line), <<64>>)   \* "@"

Python_starts_signature(line) ==
    LET trimmed == trim_start(line)
    IN starts_with(trimmed, <<100, 101, 102, 32>>) \/ starts_with(trimmed, <<97, 115, 121, 110, 99, 32, 100, 101, 102, 32>>)   \* "def ", "async def "

\* PythonFileType::count_parens from char i on; string_char is 0 outside a string
RECURSIVE Python_count_from(_, _, _, _, _)
Python_count_from(line, i, string_char, open, close) ==
    IF i > Len(line)
    THEN [open |-> open, close |-> close]
    ELSE LET c == line[i]
             peek == IF i < Len(line) THEN Some(line[i + 1]) ELSE None
         IN IF string_char # 0
            THEN IF c = string_char /\ peek # Some(string_char)
                 THEN Python_count_from(line, i + 1, 0, open, close)
                 ELSE Python_count_from(line, i + 1, string_char, open, close)
            ELSE IF c = 34 \/ c = 39
                 THEN Python_count_from(line, i + 1, c, open, close)
            ELSE IF c = 40
                 THEN Python_count_from(line, i + 1, 0, open + 1, close)
            ELSE IF c = 41
                 THEN Python_count_from(line, i + 1, 0, open, close + 1)
            ELSE IF c = 35     \* '#'
                 THEN [open |-> open, close |-> close]
            ELSE Python_count_from(line, i + 1, 0, open, close)

Python_count_parens(line) == Python_count_from(line, 1, 0, 0, 0)

Triple_double == <<34, 34, 34>>   \* """""
Triple_single == <<39, 39, 39>>   \* "'''"

\* PythonFileType::ends_signature
Python_ends_signature(line) ==
    LET trimmed == trim_end(line)
        colon_pos == rfind(trimmed, <<58>>)   \* ":"
        after_colon == trim_start(str_from(trimmed, colon_pos.value + 1))
    IN IF ends_with(trimmed, <<58>>)   \* ":"
       THEN TRUE
       ELSE /\ colon_pos.some
            /\ starts_with(after_colon, Triple_double) \/ starts_with(after_colon, Triple_single)

\* PythonFileType::remove_comment
Python_remove_comment(line) ==
    LET idx == find(line, <<35>>)   \* "#"
        before == str_to(line, idx.value)
        single_quotes == Len(SelectSeq(before, LAMBDA b : b = 39))
        double_quotes == Len(SelectSeq(before, LAMBDA b : b = 34))
    IN IF idx.some /\ single_quotes % 2 = 0 /\ double_quotes % 2 = 0
       THEN str_to(line, idx.value)
       ELSE line

\* the match on (triple_double, triple_single): the delimiter that occurs
\* first in s and its offset, None without one
first_triple(s) ==
    LET triple_double == find(s, Triple_double)
        triple_single == find(s, Triple_single)
    IN IF triple_double.some /\ triple_single.some
       THEN IF triple_double.value < triple_single.value
            THEN Some([delim |-> Triple_double, idx |-> triple_double.value])
            ELSE Some([delim |-> Triple_single, idx |-> triple_single.value])
       ELSE IF triple_double.some
       THEN Some([delim |-> Triple_double, idx |-> triple_double.value])
       ELSE IF triple_single.some
       THEN Some([delim |-> Triple_single, idx |-> triple_single.value])
       ELSE None

\* the code before a docstring, pushed if it is valid and no directive
Python_push_before(st, before_docstring, min_chars, line_num) ==
    LET cleaned == clean_whitespace(Python_remove_comment(before_docstring))
    IN [state |-> st,
        out |-> IF /\ cleaned # <<>>
                   /\ is_valid_line(cleaned, min_chars)
                   /\ ~Python_is_preprocessor_directive(cleaned)
                THEN <<SourceLine_new(cleaned, line_num + 1)>>
                ELSE <<>>]

\* the branch of a recognized `def` line
Python_signature_start(st, line) ==
    LET p == Python_count_parens(line)
        balance == p.open - p.close
        colon_pos == rfind(line, <<58>>)   \* ":"
        after_colon == str_from(line, colon_pos.value + 1)
        d == first_triple(after_colon)
        after_open == str_from(after_colon, d.value.idx + 3)
    IN IF balance <= 0 /\ Python_ends_signature(line)
       THEN IF colon_pos.some /\ d.some /\ ~contains(after_open, d.value.delim)
            THEN skip_line([st EXCEPT !.paren_depth = 0,
                                      !.in_multiline_string = TRUE,
                                      !.multiline_delimiter = Some(d.value.delim)])
            ELSE skip_line([st EXCEPT !.paren_depth = 0])
       ELSE skip_line([st EXCEPT !.paren_depth = balance, !.in_signature = TRUE])

\* one iteration of PythonFileType::get_cleaned_source_lines
Python_clean_line(ft, st, line, line_num) ==
    LET p == Python_count_parens(line)
        depth == st.paren_depth + (p.open - p.close)
        docstring_start == first_triple(line)
        delim == docstring_start.value.delim
        start_idx == docstring_start.value.idx
        after_delim == str_from(line, start_idx + 3)
        before_docstring == str_to(line, start_idx)
        cleaned == clean_whitespace(Python_remove_comment(line))
    IN IF st.in_multiline_string
       THEN IF st.multiline_delimiter.some /\ contains(line, st.multiline_delimiter.value)
            THEN skip_line([st EXCEPT !.in_multiline_string = FALSE,
                                      !.multiline_delimiter = None])
            ELSE skip_line(st)
       ELSE IF st.in_signature
       THEN IF depth <= 0 /\ Python_ends_signature(line)
            THEN skip_line([st EXCEPT !.in_signature = FALSE, !.paren_depth = 0])
            ELSE skip_line([st EXCEPT !.paren_depth = depth])
       ELSE IF Python_is_decorator(line)
       THEN skip_line(st)
       ELSE IF Python_starts_signature(line)
       THEN Python_signature_start(st, line)
       ELSE IF docstring_start.some
       THEN IF contains(after_delim, delim)
            THEN Python_push_before(st, before_docstring, ft.min_chars, line_num)
            ELSE Python_push_before([st EXCEPT !.in_multiline_string = TRUE,
                                               !.multiline_delimiter = Some(delim)],
                                    before_docstring, ft.min_chars, line_num)
       ELSE IF cleaned = <<>>
       THEN skip_line(st)
       ELSE IF Python_is_preprocessor_directive(cleaned)
       THEN skip_line(st)
       ELSE push_if_valid(st, cleaned, ft.min_chars, line_num)


\* FileType::get_cleaned_source_lines, one line: the cleaner create_file_type
\* chose for the file's extension
clean_line(ft, st, line, line_num) ==
    CASE ft.kind = "C" -> C_clean_line(ft, st, line, line_num)
      [] ft.kind = "Java" -> Java_clean_line(ft, st, line, line_num)
      [] ft.kind = "CSharp" -> CSharp_clean_line(ft, st, line, line_num)
      [] ft.kind = "Vb" -> Vb_clean_line(ft, st, line, line_num)
      [] ft.kind = "Erlang" -> Erlang_clean_line(ft, st, line, line_num)
      [] ft.kind = "Python" -> Python_clean_line(ft, st, line, line_num)
      [] ft.kind = "Rust" -> Rust_clean_line(ft, st, line, line_num)
      [] ft.kind = "JavaScript" -> JavaScript_clean_line(ft, st, line, line_num)
      [] ft.kind = "Html" -> Html_clean_line(ft, st, line, line_num)
      [] ft.kind = "Css" -> Css_clean_line(ft, st, line, line_num)
      [] ft.kind = "Unknown" -> Unknown_clean_line(ft, st, line, line_num)

(***************************************************************************)
(* SpecClean: one file is cleaned line by line.  Each step is one          *)
(* iteration of the `for (line_num, line) in lines.iter().enumerate()`     *)
(* loop of the file's cleaner; the loop never looks ahead, so the next raw *)
(* line is chosen when it is met.                                          *)
(***************************************************************************)
MaxRawLines == 3     \* most raw lines of a file

\* the cleaners that have an ignore_preprocessor field, and the others
FlagKinds == {"C", "Java", "Vb", "Erlang", "Rust"}
PlainKinds == {"CSharp", "Python", "JavaScript", "Html", "Css", "Unknown"}

\* create_file_type(filename, ignore_preprocessor, min_chars)
FileTypes(min_chars) ==
    [kind : FlagKinds, ignore_preprocessor : BOOLEAN, min_chars : {min_chars}]
    \cup [kind : PlainKinds, ignore_preprocessor : {FALSE}, min_chars : {min_chars}]

CLines ==
    { <<105, 110, 116, 32, 97, 98, 99, 32, 61, 32, 49, 59>>,   \* "int abc = 1;"
      <<47, 42, 32, 111, 112, 101, 110>>,   \* "/* open"
      <<99, 108, 111, 115, 101, 32, 42, 47, 32, 105, 110, 116, 32, 121, 32, 61, 32, 50, 59>>,   \* "close */ int y = 2;"
      <<120, 32, 61, 32, 51, 59, 32, 47, 47, 32, 116, 97, 105, 108>>,   \* "x = 3; // tail"
      <<35, 105, 110, 99, 108, 117, 100, 101, 32, 60, 97, 46, 104, 62>>,   \* "#include <a.h>"
      <<32, 32>>,   \* "  "
      <<97, 32, 47, 42, 32, 98, 32, 42, 47, 32, 99, 32, 61, 32, 52, 59>>,   \* "a /* b */ c = 4;"
      <<105, 110, 115, 105, 100, 101, 32, 116, 101, 120, 116>> }   \* "inside text"

CssLines ==
    { <<97, 98, 32, 47, 47, 42, 42, 47, 42, 32, 99, 100>>,   \* "ab //**/* cd"
      <<47, 42, 32, 111, 112, 101, 110>>,   \* "/* open"
      <<99, 108, 111, 115, 101, 32, 42, 47, 32, 98, 32, 123, 32, 99, 32, 125>>,   \* "close */ b { c }"
      <<97, 32, 123, 32, 98, 58, 32, 99, 32, 125>>,   \* "a { b: c }"
      <<64, 105, 109, 112, 111, 114, 116, 32, 39, 120, 39, 59>>,   \* "@import 'x';"
      <<105, 110, 115, 105, 100, 101, 32, 116, 101, 120, 116>> }   \* "inside text"

HtmlLines ==
    { <<60, 60, 33, 45, 45, 120, 45, 45, 62, 33, 45, 45, 32, 97, 98, 99>>,   \* "<<!--x-->!-- abc"
      <<60, 33, 45, 45, 32, 111, 112, 101, 110>>,   \* "<!-- open"
      <<99, 108, 111, 115, 101, 32, 45, 45, 62, 32, 60, 112, 62, 116, 60, 47, 112, 62>>,   \* "close --> <p>t</p>"
      <<60, 98, 62, 97, 98, 99, 60, 47, 98, 62>>,   \* "<b>abc</b>"
      <<105, 110, 115, 105, 100, 101, 32, 116, 101, 120, 116>>,   \* "inside text"
      <<97, 60, 33, 45, 45, 98, 45, 45, 62, 99, 100>> }   \* "a<!--b-->cd"

RustLines ==
    { <<47, 42, 32, 97, 32, 47, 42, 32, 98>>,   \* "/* a /* b"
      <<99, 32, 42, 47, 32, 115, 116, 105, 108, 108>>,   \* "c */ still"
      <<100, 32, 42, 47, 32, 108, 101, 116, 32, 120, 32, 61, 32, 49, 59>>,   \* "d */ let x = 1;"
      <<102, 110, 32, 102, 40>>,   \* "fn f("
      <<97, 58, 32, 117, 51, 50, 44>>,   \* "a: u32,"
      <<41, 32, 45, 62, 32, 117, 51, 50, 32, 123>>,   \* ") -> u32 {"
      <<120, 32, 43, 32, 49>>,   \* "x + 1"
      <<102, 110, 32, 103, 40, 41, 59>>,   \* "fn g();"
      <<102, 110, 32, 104, 40, 41, 32, 123>>,   \* "fn h() {"
      <<115, 40, 34, 123, 34, 41, 59>>,   \* "s("{");"
      <<116, 40, 34, 40, 34, 41, 32, 123>>,   \* "t("(") {"
      <<35, 91, 116, 101, 115, 116, 93>>,   \* "#[test]"
      <<117, 115, 101, 32, 97, 58, 58, 98, 59>>,   \* "use a::b;"
      <<108, 101, 116, 32, 121, 32, 61, 32, 50, 59, 32, 47, 47, 32, 116>> }   \* "let y = 2; // t"

JavaLines ==
    { <<118, 111, 105, 100, 32, 102, 40>>,   \* "void f("
      <<105, 110, 116, 32, 97, 44>>,   \* "int a,"
      <<105, 110, 116, 32, 98, 41, 32, 123>>,   \* "int b) {"
      <<120, 32, 61, 32, 103, 40, 49, 41, 59>>,   \* "x = g(1);"
      <<118, 111, 105, 100, 32, 103, 40, 41, 59>>,   \* "void g();"
      <<118, 111, 105, 100, 32, 104, 40, 41, 32, 123>>,   \* "void h() {"
      <<47, 42, 32, 99>>,   \* "/* c"
      <<99, 32, 42, 47, 32, 121, 32, 61, 32, 50, 59>>,   \* "c */ y = 2;"
      <<115, 40, 34, 123, 34, 41, 59>>,   \* "s("{");"
      <<116, 40, 34, 40, 34, 41, 32, 123>>,   \* "t("(") {"
      <<64, 79, 118, 101, 114, 114, 105, 100, 101>>,   \* "@Override"
      <<105, 109, 112, 111, 114, 116, 32, 97, 59>> }   \* "import a;"

JavaScriptLines ==
    { <<102, 117, 110, 99, 116, 105, 111, 110, 32, 102, 40>>,   \* "function f("
      <<97, 44, 32, 98, 41, 32, 123>>,   \* "a, b) {"
      <<120, 32, 61, 32, 103, 40, 49, 41, 59>>,   \* "x = g(1);"
      <<103, 40, 41, 58, 32, 118, 111, 105, 100, 59>>,   \* "g(): void;"
      <<97, 41, 32, 61, 62, 32, 97, 59>>,   \* "a) => a;"
      <<47, 42, 32, 99>>,   \* "/* c"
      <<99, 32, 42, 47, 32, 121, 32, 61, 32, 50, 59>>,   \* "c */ y = 2;"
      <<115, 40, 34, 123, 34, 41, 59>>,   \* "s("{");"
      <<116, 40, 34, 40, 34, 41, 32, 123>>,   \* "t("(") {"
      <<64, 68, 101, 99>>,   \* "@Dec"
      <<105, 109, 112, 111, 114, 116, 32, 97, 59>> }   \* "import a;"

PythonLines ==
    { <<100, 101, 102, 32, 102, 40, 97, 44>>,   \* "def f(a,"
      <<98, 41, 58, 32, 34, 34, 34, 68, 111, 99, 58, 32, 120, 34, 34, 34>>,   \* "b): """Doc: x""""
      <<98, 41, 58, 32, 34, 34, 34, 100, 111, 99>>,   \* "b): """doc"
      <<109, 111, 114, 101, 32, 116, 101, 120, 116>>,   \* "more text"
      <<101, 110, 100, 34, 34, 34>>,   \* "end""""
      <<120, 32, 61, 32, 49>>,   \* "x = 1"
      <<98, 41, 58>>,   \* "b):"
      <<100, 101, 102, 32, 103, 40, 41, 58, 32, 34, 34, 34, 100>>,   \* "def g(): """d"
      <<100, 101, 102, 32, 104, 40, 41, 58, 32, 112, 97, 115, 115>>,   \* "def h(): pass"
      <<34, 34, 34, 111, 112, 101, 110>>,   \* """"open"
      <<64, 100, 101, 99>>,   \* "@dec"
      <<121, 32, 61, 32, 50, 32, 32, 35, 32, 99>> }   \* "y = 2  # c"

VbLines ==
    { <<68, 105, 109, 32, 120, 32, 61, 32, 49, 32, 39, 32, 99>>,   \* "Dim x = 1 ' c"
      <<73, 109, 112, 111, 114, 116, 115, 32, 65>>,   \* "Imports A"
      <<35, 73, 102, 32, 88>>,   \* "#If X"
      <<39, 32, 111, 110, 108, 121>>,   \* "' only"
      <<121, 32, 61, 32, 50>> }   \* "y = 2"

ErlangLines ==
    { <<102, 40, 88, 41, 32, 45, 62, 32, 88, 46, 32, 37, 32, 99>>,   \* "f(X) -> X. % c"
      <<45, 109, 111, 100, 117, 108, 101, 40, 109, 41, 46>>,   \* "-module(m)."
      <<37, 32, 111, 110, 108, 121>>,   \* "% only"
      <<103, 40, 41, 32, 45, 62, 32, 111, 107, 46>> }   \* "g() -> ok."

UnknownLines ==
    { <<32, 32, 97, 98, 99, 32, 32>>,   \* "  abc  "
      <<49, 50>>,   \* "12"
      <<120, 32, 61, 32, 49>>,   \* "x = 1"
      <<97, 32, 47, 42, 32, 98>> }   \* "a /* b"

\* the raw lines a file of each kind is made of
RawLines(ft) ==
    CASE ft.kind \in {"C", "CSharp"} -> CLines
      [] ft.kind = "Java" -> JavaLines
      [] ft.kind = "Vb" -> VbLines
      [] ft.kind = "Erlang" -> ErlangLines
      [] ft.kind = "Python" -> PythonLines
      [] ft.kind = "Rust" -> RustLines
      [] ft.kind = "JavaScript" -> JavaScriptLines
      [] ft.kind = "Html" -> HtmlLines
      [] ft.kind = "Css" -> CssLines
      [] ft.kind = "Unknown" -> UnknownLines

CleanInit ==
    /\ config = Config_default
    /\ PairIdle
    /\ RunIdle
    /\ CacheIdle
    /\ MainIdle
    /\ TaskIdle
    /\ file_type \in FileTypes(config.min_chars)
    /\ raw_lines = <<>>
    /\ cleaner = CleanerStart
    /\ cleaned_lines = <<>>

\* one iteration of the loop of get_cleaned_source_lines
CleanLine(line) ==
    /\ Len(raw_lines) < MaxRawLines
    /\ raw_lines' = Append(raw_lines, line)
    /\ cleaner' = clean_line(file_type, cleaner, line, Len(raw_lines)).state
    /\ cleaned_lines' = cleaned_lines \o clean_line(file_type, cleaner, line, Len(raw_lines)).out
    /\ UNCHANGED <<config, pair_vars, run_vars, cache_vars, main_vars, task_vars, file_type>>

CleanNext == \E line \in RawLines(file_type) : CleanLine(line)

SpecClean == CleanInit /\ [][CleanNext]_vars


(***************************************************************************)
(* C22: cleaning an already-cleaned line                                   *)
(***************************************************************************)
\* a cleaned line given as the only line of a file to the same cleaner
Recleaned(ft, source_line) == clean_line(ft, CleanerStart, source_line.line, 0)

IdempotentOn(ft, source_line) ==
    LET again == Recleaned(ft, source_line)
    IN /\ Len(again.out) = 1
       /\ again.out[1].line = source_line.line
       /\ again.out[1].hash = source_line.hash
       /\ again.state = CleanerStart

\* C22: every cleaned line the cleaner has emitted, given as the only input
\* line to the same cleaner in its initial state with the same min_chars, is
\* emitted again as exactly one cleaned line with the same text and hash, and
\* leaves the cleaner in its normal state.
C22_CleaningIdempotent ==
    \A k \in 1..Len(cleaned_lines) : IdempotentOn(file_type, cleaned_lines[k])


(***************************************************************************)
(* C23: the block-comment state                                            *)
(***************************************************************************)
\* the cleaners with a block-comment flag, and their comment delimiters
CommentKinds == {"C", "CSharp", "Java", "JavaScript", "Css", "Html", "Rust"}

CommentOpener(ft) == IF ft.kind = "Html" THEN <<60, 33, 45, 45>> ELSE <<47, 42>>   \* "<!--", "/*"
CommentCloser(ft) == IF ft.kind = "Html" THEN <<45, 45, 62>> ELSE <<42, 47>>   \* "-->", "*/"

\* the raw line the step has just consumed
NewLine == raw_lines'[Len(raw_lines')]

\* the line lies inside the open comment as a whole: it has fewer closers than
\* comments are open (one, where comments do not nest)
WhollyInComment(ft, st, line) ==
    /\ st.in_block_comment
    /\ Cardinality(match_offsets(line, CommentCloser(ft)))
         < (IF ft.kind = "Rust" THEN st.comment_depth ELSE 1)

\* a line wholly inside a comment yields nothing and leaves the comment open
InsideYieldsNothing ==
    (file_type.kind \in CommentKinds /\ WhollyInComment(file_type, cleaner, NewLine))
        => /\ cleaned_lines' = cleaned_lines
           /\ cleaner'.in_block_comment

\* the line closes the one open comment: its first closer, with no nested
\* opener before it
ClosesComment(ft, st, line) ==
    /\ st.in_block_comment
    /\ contains(line, CommentCloser(ft))
    /\ ft.kind = "Rust" =>
         /\ st.comment_depth = 1
         /\ \A o \in match_offsets(line, CommentOpener(ft)) :
                o > find(line, CommentCloser(ft)).value

AfterCloser(ft, line) ==
    str_from(line, find(line, CommentCloser(ft)).value + Len(CommentCloser(ft)))

\* the text after the closer is cleaned as a line met outside a comment is
AfterCloserCleanedNormally ==
    (file_type.kind \in CommentKinds /\ ClosesComment(file_type, cleaner, NewLine))
        => LET normal == [cleaner EXCEPT !.in_block_comment = FALSE, !.comment_depth = 0]
               rest == clean_line(file_type, normal, AfterCloser(file_type, NewLine),
                                  Len(raw_lines))
           IN /\ cleaner' = rest.state
              /\ cleaned_lines' = cleaned_lines \o rest.out

\* the flag is carried: outside a comment a line without an opener leaves the
\* cleaner outside, a line with an opener and neither a closer nor `//` leaves
\* it inside
FlagCarried ==
    (file_type.kind \in CommentKinds /\ ~cleaner.in_block_comment)
        => /\ ~contains(NewLine, CommentOpener(file_type)) => ~cleaner'.in_block_comment
           /\ ( /\ contains(NewLine, CommentOpener(file_type))
                /\ ~contains(NewLine, CommentCloser(file_type))
                /\ ~contains(NewLine, <<47, 47>>) ) => cleaner'.in_block_comment   \* "//"

\* a step emits at most one cleaned line, numbered as the raw line it consumed
KeepsLineNumber ==
    \/ cleaned_lines' = cleaned_lines
    \/ /\ Len(cleaned_lines') = Len(cleaned_lines) + 1
       /\ SubSeq(cleaned_lines', 1, Len(cleaned_lines)) = cleaned_lines
       /\ cleaned_lines'[Len(cleaned_lines')].line_number = Len(raw_lines')

NumbersIncrease ==
    /\ \A k \in 1..Len(cleaned_lines) : cleaned_lines[k].line_number \in 1..Len(raw_lines)
    /\ \A j, k \in 1..Len(cleaned_lines) :
           j < k => cleaned_lines[j].line_number < cleaned_lines[k].line_number

\* Rust: in_block_comment holds exactly while comment_depth > 0
RustDepth ==
    file_type.kind = "Rust" => (cleaner.in_block_comment <=> cleaner.comment_depth > 0)

\* C23: in the C-family, CSS, HTML and Rust cleaners the block-comment flag is
\* carried from line to line; a raw line wholly inside a comment yields no
\* cleaned line; text after the closer on the closing line is cleaned normally;
\* every cleaned line keeps the 1-indexed number of its raw line, numbers
\* strictly increasing; in the Rust cleaner in_block_comment holds exactly
\* while the nesting depth is above 0.
C23_BlockCommentState ==
    /\ [](NumbersIncrease /\ RustDepth)
    /\ [][/\ InsideYieldsNothing
          /\ AfterCloserCleanedNormally
          /\ FlagCarried
          /\ KeepsLineNumber]_vars

\* a Rust file: a nested comment opened on line 1, one level closed on line 2,
\* the comment closed on line 3 and the text after the closer emitted as line 3
C23_Witness ==
    /\ file_type.kind = "Rust"
    /\ raw_lines = << <<47, 42, 32, 97, 32, 47, 42, 32, 98>>, <<99, 32, 42, 47, 32, 115, 116, 105, 108, 108>>, <<100, 32, 42, 47, 32, 108, 101, 116, 32, 120, 32, 61, 32, 49, 59>> >>   \* "/* a /* b", "c */ still", "d */ let x = 1;"
    /\ Len(cleaned_lines) = 1
    /\ cleaned_lines[1].line = <<108, 101, 116, 32, 120, 32, 61, 32, 49, 59>>   \* "let x = 1;"
    /\ cleaned_lines[1].line_number = 3
    /\ ~cleaner.in_block_comment


(***************************************************************************)
(* C24: the signature state                                                *)
(***************************************************************************)
\* the cleaners that filter signatures: Java and Rust when ignore_preprocessor
\* is set, JS/TS and Python always
FiltersSignatures(ft) ==
    \/ ft.kind \in {"JavaScript", "Python"}
    \/ ft.kind \in {"Java", "Rust"} /\ ft.ignore_preprocessor

\* what the signature logic of the cleaner looks at: the raw line in Python,
\* the line without comments and outer whitespace in the brace languages
SignatureText(ft, st, line) ==
    CASE ft.kind = "Python" -> line
      [] ft.kind = "Rust" ->
           clean_whitespace(Rust_comment_scan(line, 1, st.in_block_comment,
                                              st.comment_depth, <<>>).cleaned)
      [] OTHER -> clean_whitespace(comment_scan(line, 1, st.in_block_comment, <<>>, TRUE).cleaned)

\* the parenthesis balance the cleaner counts on the text
ParenBalance(ft, text) ==
    CASE ft.kind = "Python" -> Python_count_parens(text).open - Python_count_parens(text).close
      [] ft.kind = "Rust" -> Rust_analyze_line(text).paren_balance
      [] ft.kind = "JavaScript" -> JavaScript_analyze_line(text).paren_balance
      [] OTHER -> Java_analyze_line(text).paren_balance

\* Python: a ':' followed by nothing but whitespace, or by a docstring
ColonMarker(text) ==
    \E c \in match_offsets(text, <<58>>) :   \* ":"
        LET after == trim(str_from(text, c + 1))
        IN \/ after = <<>>
           \/ starts_with(after, Triple_double)
           \/ starts_with(after, Triple_single)

\* the text contains the body-opening marker of its language
ContainsMarker(ft, text) ==
    CASE ft.kind = "Python" -> ColonMarker(text)
      [] ft.kind = "JavaScript" -> contains(text, <<123>>) \/ contains(text, <<61, 62>>)   \* "{", "=>"
      [] OTHER -> contains(text, <<123>>)   \* "{"

\* the text is recognized as the start of a signature
RecognizedStart(ft, text) ==
    CASE ft.kind = "Python" -> ~Python_is_decorator(text) /\ Python_starts_signature(text)
      [] ft.kind = "Rust" ->
           text # <<>> /\ ~Rust_is_attribute(text) /\ Rust_starts_signature(text)
      [] ft.kind = "JavaScript" ->
           text # <<>> /\ ~JavaScript_is_decorator(text) /\ JavaScript_starts_signature(text)
      [] OTHER -> text # <<>> /\ ~Java_is_annotation(text) /\ Java_starts_signature(text)

\* a line met in the signature state yields nothing; the state is left exactly
\* when the accumulated balance is <= 0 and the line contains the marker, and
\* then the next line meets the normal state
LeavesAtMarker ==
    (FiltersSignatures(file_type) /\ cleaner.in_signature)
        => LET text == SignatureText(file_type, cleaner, NewLine)
               closes == /\ cleaner.paren_depth + ParenBalance(file_type, text) <= 0
                         /\ ContainsMarker(file_type, text)
           IN /\ cleaned_lines' = cleaned_lines
              /\ cleaner'.in_signature <=> ~closes
              /\ closes => cleaner'.paren_depth = 0

\* a recognized signature start that is not complete on its line opens the
\* signature state
EntersAtStart ==
    (/\ FiltersSignatures(file_type)
     /\ ~cleaner.in_signature
     /\ ~cleaner.in_multiline_string)
        => LET text == SignatureText(file_type, cleaner, NewLine)
               complete == /\ ParenBalance(file_type, text) <= 0
                           /\ ContainsMarker(file_type, text)
           IN (RecognizedStart(file_type, text) /\ ~complete) => cleaner'.in_signature

\* C24: in the Java, Rust, JS/TS and Python cleaners a recognized signature
\* start that is not complete on its own line puts the cleaner in the signature
\* state; in that state no line produces output; the state is left at the first
\* line at which the accumulated parenthesis balance is <= 0 and the line
\* contains the body-opening marker ('{', '=>' for JS/TS, ':' optionally
\* followed by a docstring for Python), and the next line is cleaned in the
\* normal state.
C24_SignatureState == [][LeavesAtMarker /\ EntersAtStart]_vars


(***************************************************************************)
(* C25: a Python docstring next to a signature                             *)
(***************************************************************************)
\* the line has a triple-quoted opener that is not closed on the line
UnclosedOpener(line) ==
    /\ first_triple(line).some
    /\ ~contains(str_from(line, first_triple(line).value.idx + 3),
                 first_triple(line).value.delim)

\* the line ends a signature: balance <= 0 with the ':' that closes it
CompletesSignature(depth, line) ==
    /\ depth + ParenBalance([kind |-> "Python"], line) <= 0
    /\ ColonMarker(line)

\* the three places of an opener: a plain line, a single-line def line, the
\* line that closes a multi-line signature
PlainLine(st, line) ==
    ~st.in_signature /\ ~Python_is_decorator(line) /\ ~Python_starts_signature(line)

SingleLineDef(st, line) ==
    /\ ~st.in_signature
    /\ ~Python_is_decorator(line)
    /\ Python_starts_signature(line)
    /\ CompletesSignature(0, line)

ClosingLine(st, line) == st.in_signature /\ CompletesSignature(st.paren_depth, line)

\* an unclosed opener in one of the three places starts the multi-line-string
\* state with its delimiter
OpenerStartsString ==
    (/\ file_type.kind = "Python"
     /\ ~cleaner.in_multiline_string
     /\ UnclosedOpener(NewLine)
     /\ \/ PlainLine(cleaner, NewLine)
        \/ SingleLineDef(cleaner, NewLine)
        \/ ClosingLine(cleaner, NewLine))
        => /\ cleaner'.in_multiline_string
           /\ cleaner'.multiline_delimiter = Some(first_triple(NewLine).value.delim)

\* in the multi-line-string state no line produces output; the line with the
\* closing delimiter ends the state
StringSuppresses ==
    (file_type.kind = "Python" /\ cleaner.in_multiline_string)
        => /\ cleaned_lines' = cleaned_lines
           /\ cleaner'.in_multiline_string
                <=> ~contains(NewLine, cleaner.multiline_delimiter.value)
           /\ ~cleaner'.in_multiline_string =>
                cleaner' = [cleaner EXCEPT !.in_multiline_string = FALSE,
                                           !.multiline_delimiter = None]

\* C25: in the Python cleaner a triple-quoted opener that is not closed on its
\* line starts the multi-line-string state on a plain line, on a single-line
\* def line and on the line that closes a multi-line signature; every following
\* line up to and including the line with the closing delimiter produces no
\* output, and cleaning then continues in the normal state.
C25_DocstringState == [][OpenerStartsString /\ StringSuppresses]_vars


(***************************************************************************)
(* C30: the signature state of the brace languages has no other exit       *)
(***************************************************************************)
BraceKinds == {"Java", "Rust", "JavaScript"}

\* the quote characters that delimit a literal: '"' and '\'', in JS/TS '`' too
QuoteChars(ft) == IF ft.kind = "JavaScript" THEN {34, 39, 96} ELSE {34, 39}

\* position k of a text without escapes lies outside the literals: each kind
\* of quote occurs an even number of times before it
OutsideLiterals(ft, text, k) ==
    \A q \in QuoteChars(ft) :
        Cardinality({j \in 1..(k - 1) : text[j] = q}) % 2 = 0

\* the parentheses outside literals: opening minus closing
BalanceOutsideLiterals(ft, text) ==
    Cardinality({k \in 1..Len(text) : text[k] = 40 /\ OutsideLiterals(ft, text, k)})
    - Cardinality({k \in 1..Len(text) : text[k] = 41 /\ OutsideLiterals(ft, text, k)})

\* a '{' outside literals, in JS/TS a '=>' outside literals as well
MarkerOutsideLiterals(ft, text) ==
    \/ \E k \in 1..Len(text) : text[k] = 123 /\ OutsideLiterals(ft, text, k)
    \/ /\ ft.kind = "JavaScript"
       /\ \E k \in 1..(Len(text) - 1) :
              text[k] = 61 /\ text[k + 1] = 62 /\ OutsideLiterals(ft, text, k)

\* in the signature state a line is dropped, and the state is left exactly at
\* a line with accumulated balance <= 0 and a marker outside literals
StaysUntilMarker ==
    (file_type.kind \in BraceKinds /\ FiltersSignatures(file_type) /\ cleaner.in_signature)
        => LET text == SignatureText(file_type, cleaner, NewLine)
               closes == /\ cleaner.paren_depth + BalanceOutsideLiterals(file_type, text) <= 0
                         /\ MarkerOutsideLiterals(file_type, text)
           IN /\ cleaned_lines' = cleaned_lines
              /\ cleaner'.in_signature <=> ~closes

\* a recognized signature start is dropped, and it opens the signature state
\* unless it has balanced parentheses and a marker itself
StartOpens ==
    (file_type.kind \in BraceKinds /\ FiltersSignatures(file_type) /\ ~cleaner.in_signature)
        => LET text == SignatureText(file_type, cleaner, NewLine)
               complete == /\ BalanceOutsideLiterals(file_type, text) <= 0
                           /\ MarkerOutsideLiterals(file_type, text)
           IN RecognizedStart(file_type, text)
                  => /\ cleaned_lines' = cleaned_lines
                     /\ cleaner'.in_signature <=> ~complete

StaysUntilAnyMarker ==
    (file_type.kind \in BraceKinds /\ FiltersSignatures(file_type) /\ cleaner.in_signature)
        => LET text == SignatureText(file_type, cleaner, NewLine)
               closes == /\ cleaner.paren_depth + BalanceOutsideLiterals(file_type, text) <= 0
                         /\ ContainsMarker(file_type, text)
           IN /\ cleaned_lines' = cleaned_lines
              /\ cleaner'.in_signature <=> ~closes

====
